---- MODULE Spec2Model ----
(***************************************************************************)
(* django-simple-bulma: the colour conversion and CSS-variable generation  *)
(* of django_simple_bulma/css_variables.py, the static-files finder of     *)
(* finders.py, the file discovery of utils.py and the template tag of      *)
(* templatetags/django_simple_bulma.py.                                    *)
(*                                                                         *)
(* A Python str is a sequence of one-character strings, so that lower(),   *)
(* lstrip(), slicing, int(_, 16), the regular expressions, the f-string    *)
(* formatting and the pathlib operations are computed character by         *)
(* character.                                                              *)
(*                                                                         *)
(* A behaviour is one call: Init draws the function, its argument and the  *)
(* surroundings it reads (settings, the finder object, the files on disk), *)
(* the action applies the function, stores what it returns or raises in    *)
(* ret and leaves its effects in disk and log.  The functions of           *)
(* css_variables.py are pure and leave the surroundings alone.             *)
(***************************************************************************)
EXTENDS Integers, Sequences, FiniteSets, TLC

VARIABLES
    pc,     \* "call" before the call, "done" after it
    fn,     \* the function called
    arg,    \* its argument
    ret,    \* [exc |-> "pending"] before the call; afterwards
            \* [exc |-> "none", val |-> returned value] or [exc |-> exception type]
    settings,   \* django.conf.settings, as far as the code reads it
    finder,     \* the fields of the SimpleBulmaFinder object
    disk,       \* the files on disk: path |-> content
    log,        \* the warnings logged, in order
    tables,     \* the dicts get_variable_mapping has returned to a caller
                \* that keeps them, in the order of the calls
    locals      \* the local variables of a generator that is suspended or
                \* has ended

vars == <<pc, fn, arg, ret, settings, finder, disk, log, tables, locals>>

\* what the call reads and changes besides its argument
surroundings == <<settings, finder, disk, log, tables, locals>>

(***************************************************************************)
(* Bounds of the model                                                     *)
(***************************************************************************)
\* how many hex digits of DigitOrder the drawn hex strings are built from
NumDigits == 4
\* the longest run of leading '#' characters of a drawn string
MaxHashes == 2
\* the largest number of entries of a drawn variables mapping
MaxVars == 2
\* the longest path drawn for find
MaxPathLen == 3
\* the longest list of themes drawn
MaxThemes == 2
\* the longest custom_scss list drawn
MaxScss == 2
\* the largest number of other finders drawn
MaxFinders == 2
\* the largest number of keys of a drawn BULMA_SETTINGS
MaxKeys == 2
\* the largest number of files of a drawn extension folder
MaxFiles == 2
\* the largest number of dicts of get_variable_mapping a caller keeps
MaxTables == 2

(***************************************************************************)
(* Program constants                                                       *)
(***************************************************************************)
\* len(hex_color) == 3: the short hex form
ShortHexLen == 3
\* len(hex_color) != 6: the long hex form
HexLen == 6

(***************************************************************************)
(* Python str primitives                                                   *)
(***************************************************************************)
LowerAZ == <<"a","b","c","d","e","f","g","h","i","j","k","l","m",
             "n","o","p","q","r","s","t","u","v","w","x","y","z">>
UpperAZ == <<"A","B","C","D","E","F","G","H","I","J","K","L","M",
             "N","O","P","Q","R","S","T","U","V","W","X","Y","Z">>

\* str.lower() of one character
ToLower == [c \in { UpperAZ[i] : i \in 1..26 } |->
                LowerAZ[CHOOSE i \in 1..26 : UpperAZ[i] = c]]

LowerChar(c) == IF c \in DOMAIN ToLower THEN ToLower[c] ELSE c

\* str.lower()
Lower(s) == [i \in 1..Len(s) |-> LowerChar(s[i])]

\* str.upper() of one character (used to draw inputs in other letter cases)
ToUpper == [c \in { LowerAZ[i] : i \in 1..26 } |->
                UpperAZ[CHOOSE i \in 1..26 : LowerAZ[i] = c]]

UpperChar(c) == IF c \in DOMAIN ToUpper THEN ToUpper[c] ELSE c

Upper(s) == [i \in 1..Len(s) |-> UpperChar(s[i])]

\* str.capitalize(): first character upper case, the rest lower case
Capitalize(s) == [i \in 1..Len(s) |-> IF i = 1 THEN UpperChar(s[i]) ELSE LowerChar(s[i])]

\* the characters Python's int() and the regex class \s take for white space
Whitespace == {" ", "\t", "\n"}

HexLower == <<"0","1","2","3","4","5","6","7","8","9","a","b","c","d","e","f">>

\* [0-9a-fA-F]
HexChars == { HexLower[i] : i \in 1..16 } \cup { UpperChar(HexLower[i]) : i \in 1..16 }

IsHexChar(c) == c \in HexChars

\* the value of each hex digit, in either letter case
HexValues == [c \in HexChars |-> (CHOOSE i \in 1..16 : HexLower[i] = LowerChar(c)) - 1]

HexVal(c) == HexValues[c]

IsHexString(s) == \A i \in 1..Len(s) : IsHexChar(s[i])

\* s.startswith(p)
StartsWith(s, p) == Len(p) <= Len(s) /\ SubSeq(s, 1, Len(p)) = p

\* mutant: the '#' is kept
LStripHash_Keep(s) == s

\* hex_color.lstrip('#'): every leading '#' is removed
RECURSIVE LStripHash(_)
LStripHash(s) ==
    IF s # <<>> /\ Head(s) = "#" THEN LStripHash(Tail(s)) ELSE s

\* mutant: the three characters are repeated as a block ('abc' -> 'abcabc')
DoubleChars_Repeat(s) == s \o s

\* ''.join([c*2 for c in hex_color])
DoubleChars(s) == [i \in 1..2 * Len(s) |-> s[(i + 1) \div 2]]

\* mutant: a character that is no hex digit counts as 0
ParseInt16_Lenient(s) ==
    [ok |-> TRUE,
     val |-> (IF IsHexChar(s[1]) THEN 16 * HexVal(s[1]) ELSE 0)
             + (IF IsHexChar(s[2]) THEN HexVal(s[2]) ELSE 0)]

\* int(s, 16) on a two-character slice: white space around the digits is
\* stripped and one sign is accepted; anything else raises ValueError.
\* ok = FALSE stands for the ValueError.
ParseInt16(s) ==
    CASE IsHexChar(s[1]) /\ IsHexChar(s[2]) ->
            [ok |-> TRUE, val |-> 16 * HexVal(s[1]) + HexVal(s[2])]
      [] s[1] = "+" /\ IsHexChar(s[2]) -> [ok |-> TRUE, val |-> HexVal(s[2])]
      [] s[1] = "-" /\ IsHexChar(s[2]) -> [ok |-> TRUE, val |-> 0 - HexVal(s[2])]
      [] s[1] \in Whitespace /\ IsHexChar(s[2]) -> [ok |-> TRUE, val |-> HexVal(s[2])]
      [] IsHexChar(s[1]) /\ s[2] \in Whitespace -> [ok |-> TRUE, val |-> HexVal(s[1])]
      [] OTHER -> [ok |-> FALSE, val |-> 0]

\* str(n) of an integer, as the f-strings format it
RECURSIVE NatStr(_)
NatStr(n) ==
    IF n < 10 THEN <<HexLower[n + 1]>>
    ELSE NatStr(n \div 10) \o <<HexLower[(n % 10) + 1]>>

IntStr(n) == IF n < 0 THEN <<"-">> \o NatStr(0 - n) ELSE NatStr(n)

\* text.split(sep) for a one-character separator
Split(text, sep) ==
    LET breaks == { i \in 1..Len(text) : text[i] = sep }
        \* the position of the k-th separator; 0 before the text, Len + 1 after it
        at(k) == IF k = 0 THEN 0
                 ELSE IF k > Cardinality(breaks) THEN Len(text) + 1
                 ELSE CHOOSE i \in breaks :
                          Cardinality({ m \in breaks : m < i }) = k - 1
    IN  [k \in 1..Cardinality(breaks) + 1 |-> SubSeq(text, at(k - 1) + 1, at(k) - 1)]

\* sep.join(parts)
RECURSIVE JoinWith(_, _)
JoinWith(parts, sep) ==
    IF parts = <<>> THEN <<>>
    ELSE IF Len(parts) = 1 THEN parts[1]
    ELSE parts[1] \o sep \o JoinWith(Tail(parts), sep)

\* text.split(sub, 1)[-1]: what follows the first occurrence of sub, the
\* whole text when sub does not occur
AfterFirst(text, sub) ==
    LET starts == { i \in 1..Len(text) - Len(sub) + 1 :
                        SubSeq(text, i, i + Len(sub) - 1) = sub }
    IN  IF starts = {} THEN text
        ELSE LET first == CHOOSE i \in starts : \A j \in starts : i <= j
             IN  SubSeq(text, first + Len(sub), Len(text))

(***************************************************************************)
(* pathlib, POSIX flavour.  A path is [root, parts]: the root is "", "/"   *)
(* or "//", the parts are the components without the empty ones and        *)
(* without "."                                                             *)
(***************************************************************************)
\* Path(text)
Path(text) ==
    LET slashes == <<"/","/">>
    IN  [ root  |-> IF StartsWith(text, slashes) /\ ~StartsWith(text, slashes \o <<"/">>)
                    THEN slashes
                    ELSE IF StartsWith(text, <<"/">>) THEN <<"/">> ELSE <<>>,
          parts |-> SelectSeq(Split(text, "/"), LAMBDA c : c # <<>> /\ c # <<".">>) ]

\* str(path), also path.as_posix()
PathStr(path) ==
    IF path.root = <<>> /\ path.parts = <<>> THEN <<".">>
    ELSE path.root \o JoinWith(path.parts, <<"/">>)

\* path / other: an other that has a root replaces the path
PathJoin(path, other) ==
    IF other.root # <<>> THEN other
    ELSE [root |-> path.root, parts |-> path.parts \o other.parts]

\* path.name
PathName(path) ==
    IF path.parts = <<>> THEN <<>> ELSE path.parts[Len(path.parts)]

\* path.parent
PathParent(path) ==
    IF path.parts = <<>> THEN path
    ELSE [root |-> path.root, parts |-> SubSeq(path.parts, 1, Len(path.parts) - 1)]

\* the place where the suffix of a file name starts: its last '.', when that
\* is neither the first nor the last character; 0 when there is no suffix
SuffixAt(name) ==
    LET dots == { i \in 1..Len(name) : name[i] = "." }
        last == CHOOSE i \in dots : \A j \in dots : j <= i
    IN  IF dots = {} THEN 0
        ELSE IF last = 1 \/ last = Len(name) THEN 0 ELSE last

\* path.stem
PathStem(path) ==
    LET name == PathName(path)
    IN  IF SuffixAt(name) = 0 THEN name ELSE SubSeq(name, 1, SuffixAt(name) - 1)

\* path.suffix
PathSuffix(path) ==
    LET name == PathName(path)
    IN  IF SuffixAt(name) = 0 THEN <<>> ELSE SubSeq(name, SuffixAt(name), Len(name))

(***************************************************************************)
(* hex_to_hsl                                                              *)
(***************************************************************************)
\* named_colors of hex_to_hsl: <<name, hex>> pairs
named_colors == {
    <<<<"w","h","i","t","e">>, <<"#","f","f","f","f","f","f">>>>,
    <<<<"b","l","a","c","k">>, <<"#","0","0","0","0","0","0">>>>,
    <<<<"r","e","d">>, <<"#","f","f","0","0","0","0">>>>,
    <<<<"g","r","e","e","n">>, <<"#","0","0","f","f","0","0">>>>,
    <<<<"b","l","u","e">>, <<"#","0","0","0","0","f","f">>>>,
    <<<<"y","e","l","l","o","w">>, <<"#","f","f","f","f","0","0">>>>,
    <<<<"c","y","a","n">>, <<"#","0","0","f","f","f","f">>>>,
    <<<<"m","a","g","e","n","t","a">>, <<"#","f","f","0","0","f","f">>>>,
    <<<<"o","r","a","n","g","e">>, <<"#","f","f","a","5","0","0">>>>,
    <<<<"p","u","r","p","l","e">>, <<"#","8","0","0","0","8","0">>>>,
    <<<<"p","i","n","k">>, <<"#","f","f","c","0","c","b">>>>,
    <<<<"b","r","o","w","n">>, <<"#","a","5","2","a","2","a">>>>,
    <<<<"g","r","a","y">>, <<"#","8","0","8","0","8","0">>>>,
    <<<<"g","r","e","y">>, <<"#","8","0","8","0","8","0">>>> }

ColorNames == { p[1] : p \in named_colors }

\* lines 43-45: a named colour, in any letter case, becomes its hex value
SubstituteNamed_CaseSensitive(s) ==
    IF s \in ColorNames
    THEN (CHOOSE p \in named_colors : p[1] = s)[2]
    ELSE s

SubstituteNamed(s) ==
    IF Lower(s) \in ColorNames
    THEN (CHOOSE p \in named_colors : p[1] = Lower(s))[2]
    ELSE s

\* lines 47-52: the '#' characters are stripped, three characters are doubled
NormalizeHex(s) ==
    LET stripped == LStripHash(SubstituteNamed(s))
    IN  IF Len(stripped) = ShortHexLen THEN DoubleChars(stripped) ELSE stripped

Max3(a, b, c) == IF a >= b /\ a >= c THEN a ELSE IF b >= c THEN b ELSE c
Min3(a, b, c) == IF a <= b /\ a <= c THEN a ELSE IF b <= c THEN b ELSE c

\* The channel triples, among those the model draws (six digits out of the
\* first NumDigits + 1 of DigitOrder), whose hue lies exactly on a .5
\* boundary and for which the double-precision evaluation of lines 58-86
\* lands on the side of the odd neighbour, so that round() returns the odd
\* one.  On every other drawn tie round() returns the even neighbour.
hue_float_odd == {
    <<1,112,121>>, <<1,127,241>>, <<1,241,7>>, <<1,241,15>>, <<7,1,145>>,
    <<7,127,16>>, <<7,145,151>>, <<7,151,121>>, <<7,247,25>>, <<9,7,247>>,
    <<9,249,15>>, <<9,249,23>>, <<15,9,153>>, <<15,153,159>>, <<17,7,247>>,
    <<17,15,255>>, <<23,241,1>>, <<25,15,255>>, <<31,249,9>>, <<113,153,144>>,
    <<119,9,249>>, <<121,151,7>>, <<144,153,113>>, <<145,1,7>>, <<145,15,255>>,
    <<145,25,112>>, <<145,151,7>>, <<151,145,7>>, <<153,9,15>>, <<153,113,144>>,
    <<153,144,113>>, <<153,159,15>>, <<159,144,119>>, <<159,153,15>>,
    <<241,247,7>>, <<247,7,9>>, <<247,7,17>>, <<249,255,15>>, <<255,15,17>>,
    <<255,15,25>>
}

\* round(num / den) of Python 3, den # 0: the nearest integer; a value exactly
\* half way goes to the even neighbour, or to the odd one when the double that
\* was computed lies on that side (odd).
Round_Truncating(num, den, odd) ==
    LET n == IF den < 0 THEN 0 - num ELSE num
        d == IF den < 0 THEN 0 - den ELSE den
    IN  n \div d

Round(num, den, odd) ==
    LET n == IF den < 0 THEN 0 - num ELSE num
        d == IF den < 0 THEN 0 - den ELSE den
        q == n \div d
        r == n - q * d
    IN  IF 2 * r < d THEN q
        ELSE IF 2 * r > d THEN q + 1
        ELSE IF (q % 2 = 0) = odd THEN q + 1 ELSE q

\* lines 79-86, times 360: the hue in degrees as the fraction num / diff.
\* Channels are in units of 1/255.
HueDegrees_NoWrap(red, green, blue) ==
    LET max_val == Max3(red, green, blue)
        diff == max_val - Min3(red, green, blue)
    IN  IF max_val = red THEN 60 * (green - blue)
        ELSE IF max_val = green THEN 60 * (blue - red) + 120 * diff
        ELSE 60 * (red - green) + 240 * diff

HueDegrees(red, green, blue) ==
    LET max_val == Max3(red, green, blue)
        diff == max_val - Min3(red, green, blue)
    IN  IF max_val = red
        THEN 60 * (green - blue) + (IF green < blue THEN 360 * diff ELSE 0)
        ELSE IF max_val = green THEN 60 * (blue - red) + 120 * diff
        ELSE 60 * (red - green) + 240 * diff

\* mutant: the saturation is computed without the test on diff == 0
HslFractions_SaturationUnguarded(red, green, blue) ==
    LET max_val == Max3(red, green, blue)
        min_val == Min3(red, green, blue)
        diff == max_val - min_val
        sum == max_val + min_val
        dark == 2 * sum < 2 * 255
    IN  [ l |-> <<100 * sum, 2 * 255>>,
          s |-> <<100 * diff, IF dark THEN sum ELSE 2 * 255 - sum>>,
          h |-> IF diff = 0 THEN <<0, 1>>
                ELSE <<HueDegrees(red, green, blue), diff>> ]

\* lines 62-86: lightness, saturation and hue before rounding, each times its
\* scale (100, 100, 360) and as an exact fraction <<numerator, denominator>>.
\* red, green, blue are the parsed bytes: the code divides each by 255.0, here
\* the common factor 1/255 is cancelled.  A saturation denominator of 0 is
\* the division by zero of line 75.
HslFractions(red, green, blue) ==
    LET max_val == Max3(red, green, blue)
        min_val == Min3(red, green, blue)
        diff == max_val - min_val
        sum == max_val + min_val
        \* lightness < 0.5, with lightness = sum / 510
        dark == 2 * sum < 2 * 255
    IN  [ l |-> <<100 * sum, 2 * 255>>,
          s |-> IF diff = 0 THEN <<0, 1>>
                ELSE <<100 * diff, IF dark THEN sum ELSE 2 * 255 - sum>>,
          h |-> IF diff = 0 THEN <<0, 1>>
                ELSE <<HueDegrees(red, green, blue), diff>> ]

\* lines 62-92: RGB to HSL, each component rounded
RgbToHsl(red, green, blue) ==
    LET f == HslFractions(red, green, blue)
    IN  IF f.s[2] = 0 THEN [exc |-> "ZeroDivisionError"]
        ELSE [exc |-> "none",
              val |-> << Round(f.h[1], f.h[2], <<red, green, blue>> \in hue_float_odd),
                         Round(f.s[1], f.s[2], FALSE),
                         Round(f.l[1], f.l[2], FALSE) >>]

\* hex_to_hsl(hex_color): [exc |-> "none", val |-> <<hue, saturation, lightness>>]
\* or the exception it raises
hex_to_hsl(hex_color) ==
    LET h == NormalizeHex(hex_color)
    IN  IF Len(h) # HexLen THEN [exc |-> "ValueError"]
        ELSE LET red == ParseInt16(SubSeq(h, 1, 2))
                 green == ParseInt16(SubSeq(h, 3, 4))
                 blue == ParseInt16(SubSeq(h, 5, 6))
             IN  IF ~(red.ok /\ green.ok /\ blue.ok) THEN [exc |-> "ValueError"]
                 ELSE RgbToHsl(red.val, green.val, blue.val)

(***************************************************************************)
(* is_color_value                                                          *)
(***************************************************************************)
\* re.match(r'^#[0-9a-fA-F]{3,6}$', value): '$' also matches just before a
\* newline that ends the string
MatchesHexPattern(value) ==
    /\ value # <<>>
    /\ Head(value) = "#"
    /\ \E body \in {Tail(value)} \cup
                   (IF value[Len(value)] = "\n"
                    THEN {SubSeq(value, 2, Len(value) - 1)} ELSE {}) :
          /\ Len(body) \in ShortHexLen..HexLen
          /\ IsHexString(body)

\* the alternation (hsl|rgb|hsla|rgba) of the function pattern
FunctionNames == { <<"h","s","l">>, <<"r","g","b">>,
                   <<"h","s","l","a">>, <<"r","g","b","a">> }

\* \s*\( at the head of s
RECURSIVE SpacesThenParen(_)
SpacesThenParen(s) ==
    /\ s # <<>>
    /\ \/ Head(s) = "("
       \/ Head(s) \in Whitespace /\ SpacesThenParen(Tail(s))

\* re.match(r'^(hsl|rgb|hsla|rgba)\s*\(', value.lower())
MatchesFunctionPattern(value) ==
    \E f \in FunctionNames :
        /\ StartsWith(Lower(value), f)
        /\ SpacesThenParen(SubSeq(value, Len(f) + 1, Len(value)))

is_color_value(value) ==
    \/ MatchesHexPattern(value)
    \/ Lower(value) \in ColorNames
    \/ MatchesFunctionPattern(value)

(***************************************************************************)
(* The arguments drawn for hex_to_hsl and is_color_value                   *)
(***************************************************************************)
\* the hex digits in the order in which NumDigits admits them
DigitOrder == <<"0","f","7","9","1","8","a","5","c","b","2","3","4","6","d","e">>

Digits == { DigitOrder[i] : i \in 1..NumDigits }

\* characters that int(_, 16) and the patterns treat differently from a
\* lower-case hex digit: an upper-case digit, a sign, a letter that is no digit
OddChars == {"A", "+", "g"}

Strings(alphabet, n) == [1..n -> alphabet]

HashRuns == { [i \in 1..n |-> "#"] : n \in 0..MaxHashes }

Bodies ==
    (UNION { Strings(Digits, n) : n \in 0..HexLen })
    \cup (UNION { Strings(OddChars, n) : n \in 0..HexLen + 1 })

ColorNameCases == UNION { {n, Upper(n), Capitalize(n)} : n \in ColorNames }

SampleValues == {
    <<"n","o","t","-","a","-","c","o","l","o","r">>,
    <<"A","r","i","a","l">>,
    <<"5","p","x">>,
    <<"#","f","f","f","f","f","\n">>,
    <<"#","f","f","f","\n">>,
    <<"#","f","f","f","f","f","f","\n">>,
    <<"#","f","f","f","f","f","f","f">>,
    <<"+","f","-","f","0","0">>,
    <<"-","f","-","f","-","f">>,
    <<"-","f","0","0","0","0">>,
    <<" ","f"," ","f"," ","f">>,
    <<"f"," ","f"," ","f"," ">>,
    <<"0","x","0","x","0","x">>,
    <<"f","_","f","_","f","_">>,
    <<"h","s","l","(","0",",","0","%",",","0","%",")">>,
    <<"h","s","l","(">>,
    <<"r","g","b","(","1",")">>,
    <<"h","s","l","(","1",")">>,
    <<"R","G","B","A","(","0",")">>,
    <<"h","s","l","a"," "," ","(">>,
    <<"r","g","b"," ","1","(">>,
    <<"r","g","b">>,
    <<"r","g","b","x","(">>,
    <<" ","r","g","b","(">>,
    <<"r","e","d"," ">>,
    <<"r","e","d","d","i","s","h">>
}

Values ==
    { h \o b : h \in HashRuns, b \in Bodies } \cup ColorNameCases \cup SampleValues

(***************************************************************************)
(* One call of hex_to_hsl or is_color_value                                *)
(***************************************************************************)
Pending == [exc |-> "pending"]

\* the surroundings of a call of a pure function: nothing is configured,
\* no file is on disk, nothing has been logged, no table is kept
Bare ==
    /\ settings = [has_bulma_settings |-> FALSE]
    /\ finder = <<>>
    /\ disk = <<>>
    /\ log = <<>>
    /\ tables = <<>>
    /\ locals = <<>>

Init ==
    /\ pc = "call"
    /\ fn \in {"hex_to_hsl", "is_color_value"}
    /\ arg \in Values
    /\ ret = Pending
    /\ Bare

HexToHsl ==
    /\ pc = "call"
    /\ fn = "hex_to_hsl"
    /\ ret' = hex_to_hsl(arg)
    /\ pc' = "done"
    /\ UNCHANGED <<fn, arg, surroundings>>

IsColorValue ==
    /\ pc = "call"
    /\ fn = "is_color_value"
    /\ ret' = [exc |-> "none", val |-> is_color_value(arg)]
    /\ pc' = "done"
    /\ UNCHANGED <<fn, arg, surroundings>>

Next == HexToHsl \/ IsColorValue

Spec == Init /\ [][Next]_vars

(***************************************************************************)
(* get_variable_mapping and convert_sass_variables_to_css                  *)
(***************************************************************************)
\* the dictionary get_variable_mapping returns: <<SASS name, CSS name>> pairs
variable_mapping == {
    <<<<"p","r","i","m","a","r","y">>,
      <<"-","-","b","u","l","m","a","-","p","r","i","m","a","r","y">>>>,
    <<<<"l","i","n","k">>,
      <<"-","-","b","u","l","m","a","-","l","i","n","k">>>>,
    <<<<"i","n","f","o">>,
      <<"-","-","b","u","l","m","a","-","i","n","f","o">>>>,
    <<<<"s","u","c","c","e","s","s">>,
      <<"-","-","b","u","l","m","a","-","s","u","c","c","e","s","s">>>>,
    <<<<"w","a","r","n","i","n","g">>,
      <<"-","-","b","u","l","m","a","-","w","a","r","n","i","n","g">>>>,
    <<<<"d","a","n","g","e","r">>,
      <<"-","-","b","u","l","m","a","-","d","a","n","g","e","r">>>>,
    <<<<"w","h","i","t","e">>,
      <<"-","-","b","u","l","m","a","-","w","h","i","t","e">>>>,
    <<<<"b","l","a","c","k">>,
      <<"-","-","b","u","l","m","a","-","b","l","a","c","k">>>>,
    <<<<"l","i","g","h","t">>,
      <<"-","-","b","u","l","m","a","-","l","i","g","h","t">>>>,
    <<<<"d","a","r","k">>,
      <<"-","-","b","u","l","m","a","-","d","a","r","k">>>>,
    <<<<"f","a","m","i","l","y","-","p","r","i","m","a","r","y">>,
      <<"-","-","b","u","l","m","a","-","f","a","m","i","l","y","-","p","r","i","m","a","r","y">>>>,
    <<<<"f","a","m","i","l","y","-","s","e","c","o","n","d","a","r","y">>,
      <<"-","-","b","u","l","m","a","-","f","a","m","i","l","y","-","s","e","c","o","n","d","a","r","y">>>>,
    <<<<"f","a","m","i","l","y","-","c","o","d","e">>,
      <<"-","-","b","u","l","m","a","-","f","a","m","i","l","y","-","c","o","d","e">>>>,
    <<<<"s","i","z","e","-","1">>,
      <<"-","-","b","u","l","m","a","-","s","i","z","e","-","1">>>>,
    <<<<"s","i","z","e","-","2">>,
      <<"-","-","b","u","l","m","a","-","s","i","z","e","-","2">>>>,
    <<<<"s","i","z","e","-","3">>,
      <<"-","-","b","u","l","m","a","-","s","i","z","e","-","3">>>>,
    <<<<"s","i","z","e","-","4">>,
      <<"-","-","b","u","l","m","a","-","s","i","z","e","-","4">>>>,
    <<<<"s","i","z","e","-","5">>,
      <<"-","-","b","u","l","m","a","-","s","i","z","e","-","5">>>>,
    <<<<"s","i","z","e","-","6">>,
      <<"-","-","b","u","l","m","a","-","s","i","z","e","-","6">>>>,
    <<<<"s","i","z","e","-","7">>,
      <<"-","-","b","u","l","m","a","-","s","i","z","e","-","7">>>>,
    <<<<"s","i","z","e","-","s","m","a","l","l">>,
      <<"-","-","b","u","l","m","a","-","s","i","z","e","-","s","m","a","l","l">>>>,
    <<<<"s","i","z","e","-","n","o","r","m","a","l">>,
      <<"-","-","b","u","l","m","a","-","s","i","z","e","-","n","o","r","m","a","l">>>>,
    <<<<"s","i","z","e","-","m","e","d","i","u","m">>,
      <<"-","-","b","u","l","m","a","-","s","i","z","e","-","m","e","d","i","u","m">>>>,
    <<<<"s","i","z","e","-","l","a","r","g","e">>,
      <<"-","-","b","u","l","m","a","-","s","i","z","e","-","l","a","r","g","e">>>>,
    <<<<"w","e","i","g","h","t","-","l","i","g","h","t">>,
      <<"-","-","b","u","l","m","a","-","w","e","i","g","h","t","-","l","i","g","h","t">>>>,
    <<<<"w","e","i","g","h","t","-","n","o","r","m","a","l">>,
      <<"-","-","b","u","l","m","a","-","w","e","i","g","h","t","-","n","o","r","m","a","l">>>>,
    <<<<"w","e","i","g","h","t","-","m","e","d","i","u","m">>,
      <<"-","-","b","u","l","m","a","-","w","e","i","g","h","t","-","m","e","d","i","u","m">>>>,
    <<<<"w","e","i","g","h","t","-","s","e","m","i","b","o","l","d">>,
      <<"-","-","b","u","l","m","a","-","w","e","i","g","h","t","-","s","e","m","i","b","o","l","d">>>>,
    <<<<"w","e","i","g","h","t","-","b","o","l","d">>,
      <<"-","-","b","u","l","m","a","-","w","e","i","g","h","t","-","b","o","l","d">>>>,
    <<<<"w","e","i","g","h","t","-","e","x","t","r","a","b","o","l","d">>,
      <<"-","-","b","u","l","m","a","-","w","e","i","g","h","t","-","e","x","t","r","a","b","o","l","d">>>>,
    <<<<"r","a","d","i","u","s">>,
      <<"-","-","b","u","l","m","a","-","r","a","d","i","u","s">>>>,
    <<<<"r","a","d","i","u","s","-","s","m","a","l","l">>,
      <<"-","-","b","u","l","m","a","-","r","a","d","i","u","s","-","s","m","a","l","l">>>>,
    <<<<"r","a","d","i","u","s","-","m","e","d","i","u","m">>,
      <<"-","-","b","u","l","m","a","-","r","a","d","i","u","s","-","m","e","d","i","u","m">>>>,
    <<<<"r","a","d","i","u","s","-","l","a","r","g","e">>,
      <<"-","-","b","u","l","m","a","-","r","a","d","i","u","s","-","l","a","r","g","e">>>>,
    <<<<"r","a","d","i","u","s","-","r","o","u","n","d","e","d">>,
      <<"-","-","b","u","l","m","a","-","r","a","d","i","u","s","-","r","o","u","n","d","e","d">>>>,
    <<<<"b","l","o","c","k","-","s","p","a","c","i","n","g">>,
      <<"-","-","b","u","l","m","a","-","b","l","o","c","k","-","s","p","a","c","i","n","g">>>>,
    <<<<"d","u","r","a","t","i","o","n">>,
      <<"-","-","b","u","l","m","a","-","d","u","r","a","t","i","o","n">>>>,
    <<<<"e","a","s","i","n","g">>,
      <<"-","-","b","u","l","m","a","-","e","a","s","i","n","g">>>>,
    <<<<"s","p","e","e","d">>,
      <<"-","-","b","u","l","m","a","-","s","p","e","e","d">>>> }

\* lines 208-211: variable_mapping.get(sass_var), else f"--bulma-{sass_var}";
\* table is the dict of line 203
CssVar_NoPrefix(table, sass_var) ==
    IF \E p \in table : p[1] = sass_var
    THEN (CHOOSE p \in table : p[1] = sass_var)[2]
    ELSE sass_var

CssVar(table, sass_var) ==
    IF \E p \in table : p[1] = sass_var /\ p[2] # <<>>
    THEN (CHOOSE p \in table : p[1] = sass_var)[2]
    ELSE <<"-","-","b","u","l","m","a","-">> \o sass_var

\* f"  {css_var}: {value};"
DirectDeclaration(css_var, value) ==
    <<" "," ">> \o css_var \o <<":"," ">> \o value \o <<";">>

\* f"  {css_var}-h: {hue}deg;", f"  {css_var}-s: {saturation}%;",
\* f"  {css_var}-l: {lightness}%;"
HslDeclarations(css_var, hsl) ==
    << <<" "," ">> \o css_var \o <<"-","h",":"," ">> \o IntStr(hsl[1]) \o <<"d","e","g",";">>,
       <<" "," ">> \o css_var \o <<"-","s",":"," ">> \o IntStr(hsl[2]) \o <<"%",";">>,
       <<" "," ">> \o css_var \o <<"-","l",":"," ">> \o IntStr(hsl[3]) \o <<"%",";">> >>

\* the exception types the except clause of line 223 catches
Caught_TypeErrorOnly == {"TypeError"}

Caught == {"ValueError", "TypeError"}

\* lines 207-228, the body of the loop for one item: the declarations it adds
\* to css_declarations, or the exception that leaves the loop
ItemDeclarations_Pair(table, sass_var, value) ==
    LET css_var == CssVar(table, sass_var)
        direct == [exc |-> "none", val |-> <<DirectDeclaration(css_var, value)>>]
    IN  IF is_color_value(value)
        THEN LET hsl == hex_to_hsl(value)
             IN  IF hsl.exc = "none"
                 THEN [exc |-> "none",
                       val |-> SubSeq(HslDeclarations(css_var, hsl.val), 1, 2)]
                 ELSE IF hsl.exc \in Caught THEN direct
                 ELSE [exc |-> hsl.exc]
        ELSE direct

ItemDeclarations_ColorsOnly(table, sass_var, value) ==
    LET css_var == CssVar(table, sass_var)
    IN  IF is_color_value(value) /\ hex_to_hsl(value).exc = "none"
        THEN [exc |-> "none", val |-> HslDeclarations(css_var, hex_to_hsl(value).val)]
        ELSE [exc |-> "none", val |-> <<>>]

ItemDeclarations(table, sass_var, value) ==
    LET css_var == CssVar(table, sass_var)
        direct == [exc |-> "none", val |-> <<DirectDeclaration(css_var, value)>>]
    IN  IF is_color_value(value)
        THEN LET hsl == hex_to_hsl(value)
             IN  IF hsl.exc = "none"
                 THEN [exc |-> "none", val |-> HslDeclarations(css_var, hsl.val)]
                 ELSE IF hsl.exc \in Caught THEN direct
                 ELSE [exc |-> hsl.exc]
        ELSE direct

\* mutant: each item's declarations are put before those already collected
RECURSIVE css_declarations_Prepending(_, _)
css_declarations_Prepending(table, variables) ==
    IF variables = <<>> THEN [exc |-> "none", val |-> <<>>]
    ELSE LET first == ItemDeclarations(table, Head(variables)[1], Head(variables)[2])
         IN  IF first.exc # "none" THEN first
             ELSE LET rest == css_declarations_Prepending(table, Tail(variables))
                  IN  IF rest.exc # "none" THEN rest
                      ELSE [exc |-> "none", val |-> rest.val \o first.val]

\* lines 204-228: css_declarations after the loop over variables.items(), a
\* sequence of <<name, value>> pairs in the dictionary's iteration order
RECURSIVE css_declarations(_, _)
css_declarations(table, variables) ==
    IF variables = <<>> THEN [exc |-> "none", val |-> <<>>]
    ELSE LET first == ItemDeclarations(table, Head(variables)[1], Head(variables)[2])
         IN  IF first.exc # "none" THEN first
             ELSE LET rest == css_declarations(table, Tail(variables))
                  IN  IF rest.exc # "none" THEN rest
                      ELSE [exc |-> "none", val |-> first.val \o rest.val]

\* "\n".join(lines)
RECURSIVE Join(_)
Join(lines) ==
    IF lines = <<>> THEN <<>>
    ELSE IF Len(lines) = 1 THEN lines[1]
    ELSE lines[1] \o <<"\n">> \o Join(Tail(lines))

\* lines 230-233: the block around the declarations; nothing when there
\* are none
RootBlock_NoClosingNewline(decls) ==
    IF decls.exc # "none" THEN decls
    ELSE [exc |-> "none",
          val |-> <<":","r","o","o","t"," ","{","\n">>
                  \o Join(decls.val) \o <<"\n","}">>]

RootBlock(decls) ==
    IF decls.exc # "none" THEN decls
    ELSE IF decls.val # <<>>
    THEN [exc |-> "none",
          val |-> <<":","r","o","o","t"," ","{","\n">>
                  \o Join(decls.val) \o <<"\n","}","\n">>]
    ELSE [exc |-> "none", val |-> <<>>]

\* lines 200-233 for the dict that get_variable_mapping() gives at line 203
ConvertWith(table, variables) ==
    IF variables = <<>> THEN [exc |-> "none", val |-> <<>>]
    ELSE RootBlock(css_declarations(table, variables))

\* convert_sass_variables_to_css(variables): line 203 gets a dict that holds
\* what the literal of get_variable_mapping holds
convert_sass_variables_to_css(variables) == ConvertWith(variable_mapping, variables)

(***************************************************************************)
(* One call of convert_sass_variables_to_css                               *)
(***************************************************************************)
\* the names drawn: two of the table, one that is not in it
VarNames == {
    <<"p","r","i","m","a","r","y">>,
    <<"f","a","m","i","l","y","-","p","r","i","m","a","r","y">>,
    <<"c","u","s","t","o","m","-","v","a","r">> }

\* the values drawn: colours that convert (long, short, named, hue 360, a
\* newline after five digits), colour-like values that do not convert (a
\* function, one of six characters, one in upper case with a space, five
\* digits), and values that are not colour-like
VarValues == {
    <<"#","0","0","7","b","f","f">>,
    <<"#","f","0","0">>,
    <<"B","l","u","e">>,
    <<"#","f","9","0","7","0","9">>,
    <<"#","f","f","f","f","f","\n">>,
    <<"r","g","b","(","0",","," ","1","2","3",","," ","2","5","5",")">>,
    <<"h","s","l","(","1",")">>,
    <<"R","G","B","A"," ","(","9",")">>,
    <<"#","1","2","3","4","5">>,
    <<"n","o","t","-","a","-","v","a","l","i","d","-","c","o","l","o","r">>,
    <<"A","r","i","a","l">>,
    <<"5","p","x">>,
    <<"#","{","$","x","}">> }

\* a dictionary has no two equal keys
DistinctNames(variables) ==
    \A i, j \in 1..Len(variables) : variables[i][1] = variables[j][1] => i = j

Mappings ==
    { v \in UNION { [1..n -> VarNames \X VarValues] : n \in 0..MaxVars } :
        DistinctNames(v) }

InitConvert ==
    /\ pc = "call"
    /\ fn = "convert_sass_variables_to_css"
    /\ arg \in Mappings
    /\ ret = Pending
    /\ Bare

Convert ==
    /\ pc = "call"
    /\ fn = "convert_sass_variables_to_css"
    /\ ret' = convert_sass_variables_to_css(arg)
    /\ pc' = "done"
    /\ UNCHANGED <<fn, arg, surroundings>>

NextConvert == Convert

SpecConvert == InitConvert /\ [][NextConvert]_vars

(***************************************************************************)
(* Properties of hex_to_hsl and is_color_value                             *)
(***************************************************************************)
Returned(f) == pc = "done" /\ fn = f

\* an optional '#' followed by six hex digits
IsHex6(s) ==
    LET body == IF s # <<>> /\ Head(s) = "#" THEN Tail(s) ELSE s
    IN  Len(body) = HexLen /\ IsHexString(body)

\* the three bytes of such a string
ChannelsOf(s) ==
    LET body == IF Head(s) = "#" THEN Tail(s) ELSE s
    IN  [i \in 1..3 |-> 16 * HexVal(body[2 * i - 1]) + HexVal(body[2 * i])]

\* the exact hue, saturation and lightness of such a string, before rounding
FractionsOf(s) ==
    LET c == ChannelsOf(s)
        f == HslFractions(c[1], c[2], c[3])
    IN  <<f.h, f.s, f.l>>

C2_ValueErrorIffNotSixHex ==
    Returned("hex_to_hsl") =>
        /\ ret.exc \in {"none", "ValueError"}
        /\ (ret.exc = "ValueError") <=>
               ~(Len(NormalizeHex(arg)) = HexLen /\ IsHexString(NormalizeHex(arg)))

\* what C3 takes for colour-like: '#' and exactly 3 or exactly 6 hex digits,
\* a named colour in any letter case, or a head hsl(, hsla(, rgb(, rgba( in
\* any letter case
C3_ClaimedColor(value) ==
    \/ /\ value # <<>>
       /\ Head(value) = "#"
       /\ Len(Tail(value)) \in {ShortHexLen, HexLen}
       /\ IsHexString(Tail(value))
    \/ Lower(value) \in ColorNames
    \/ \E f \in FunctionNames : StartsWith(Lower(value), f \o <<"(">>)

\* C3: is_color_value(value) is true if and only if value is '#' followed by
\* exactly 3 or exactly 6 hex digits, or is a named colour, or starts with a
\* functional prefix; '#' followed by 4 or 5 hex digits is not colour-like.
C3_ColorIffThreeOrSix ==
    Returned("is_color_value") => (ret.val <=> C3_ClaimedColor(arg))

\* num / den lies exactly half way between two integers (den > 0)
OnHalf(x) == (2 * x[1]) % x[2] = 0 /\ x[1] % x[2] # 0

\* C9 as claimed: a component whose exact value lies on a .5 boundary is
\* rounded half away from zero, i.e. up, for every 6-digit hex input.
C9_Original ==
    (Returned("hex_to_hsl") /\ IsHex6(arg)) =>
        \A i \in 1..3 :
            LET x == FractionsOf(arg)[i]
            IN  OnHalf(x) => ret.val[i] = (x[1] \div x[2]) + 1

\* C9 as amended: every component is rounded to a nearest integer (it differs
\* from the exact value by at most one half), and a value exactly on a .5
\* boundary is not rounded half away from zero: it goes to one of its two
\* neighbours, as round() of the computed double decides.
C9_RoundsToNearest ==
    (Returned("hex_to_hsl") /\ IsHex6(arg)) =>
        \A i \in 1..3 :
            LET x == FractionsOf(arg)[i]
                twice == 2 * (ret.val[i] * x[2] - x[1])
            IN  /\ twice <= x[2]
                /\ 0 - twice <= x[2]

\* a colour whose saturation is exactly 12.5% (max channel 9, min channel 7)
\* and for which 12 has been returned
C9_Witness ==
    /\ Returned("hex_to_hsl")
    /\ IsHex6(arg)
    /\ Max3(ChannelsOf(arg)[1], ChannelsOf(arg)[2], ChannelsOf(arg)[3]) = 9
    /\ Min3(ChannelsOf(arg)[1], ChannelsOf(arg)[2], ChannelsOf(arg)[3]) = 7
    /\ FractionsOf(arg)[2] = <<200, 16>>
    /\ ret.val[2] = 12

\* C10: for each named colour, in any letter case, hex_to_hsl(name) returns
\* the triple hex_to_hsl returns for the name's hex value in named_colors;
\* white gives (0,0,100), black (0,0,0), red what '#ff0000' gives.
C10_NamedEqualsHex ==
    (Returned("hex_to_hsl") /\ Lower(arg) \in ColorNames) =>
        /\ ret.exc = "none"
        /\ ret = hex_to_hsl((CHOOSE p \in named_colors : p[1] = Lower(arg))[2])
        /\ Lower(arg) = <<"w","h","i","t","e">> => ret.val = <<0, 0, 100>>
        /\ Lower(arg) = <<"b","l","a","c","k">> => ret.val = <<0, 0, 0>>
        /\ Lower(arg) = <<"r","e","d">> => ret.val = <<0, 100, 50>>

\* hex_to_hsl has been called with 'RED' and has returned (0, 100, 50)
C10_Witness ==
    /\ Returned("hex_to_hsl")
    /\ arg = <<"R","E","D">>
    /\ ret = [exc |-> "none", val |-> <<0, 100, 50>>]

\* the string without its one optional leading '#'
Body(s) == IF s # <<>> /\ Head(s) = "#" THEN Tail(s) ELSE s

\* an optional '#' followed by three hex digits
IsHex3(s) == Len(Body(s)) = ShortHexLen /\ IsHexString(Body(s))

\* the six digits a 3- or 6-digit colour stands for, each short digit doubled
LongBody(s) ==
    LET b == Body(s)
    IN  IF Len(b) = ShortHexLen THEN <<b[1], b[1], b[2], b[2], b[3], b[3]>> ELSE b

\* C11: for every 3-digit hex colour '#abc', hex_to_hsl('#abc') equals
\* hex_to_hsl('#aabbcc') exactly, where each digit is doubled; '#f00' gives
\* hue 0, saturation 100, lightness 50 as '#ff0000' does.
C11_ShortEqualsLong ==
    (Returned("hex_to_hsl") /\ IsHex3(arg) /\ Head(arg) = "#") =>
        /\ ret.exc = "none"
        /\ ret = hex_to_hsl(<<"#">> \o LongBody(arg))
        /\ arg = <<"#","f","0","0">> => ret.val = <<0, 100, 50>>

\* hex_to_hsl has been called with '#0f7' and has returned what '#00ff77'
\* gives, (148, 100, 50)
C11_Witness ==
    /\ Returned("hex_to_hsl")
    /\ arg = <<"#","0","f","7">>
    /\ ret = [exc |-> "none", val |-> <<148, 100, 50>>]

\* C12: for every hex colour whose three channels are equal (max == min),
\* hex_to_hsl returns hue 0 and saturation 0 and divides by no zero
\* difference; for every colour whose channels are not all equal, the
\* saturation before rounding is greater than 0.
C12_Achromatic ==
    (Returned("hex_to_hsl") /\ (IsHex3(arg) \/ IsHex6(arg))) =>
        LET c == ChannelsOf(LongBody(arg))
            f == HslFractions(c[1], c[2], c[3])
            grey == c[1] = c[2] /\ c[2] = c[3]
        IN  /\ ret.exc = "none"
            /\ f.h[2] # 0
            /\ f.s[2] # 0
            /\ grey => ret.val[1] = 0 /\ ret.val[2] = 0
            /\ ~grey => f.s[1] > 0 /\ f.s[2] > 0

\* hex_to_hsl has returned hue 0 and saturation 0 for the grey '#777777'
C12_Witness ==
    /\ Returned("hex_to_hsl")
    /\ arg = <<"#","7","7","7","7","7","7">>
    /\ ret = [exc |-> "none", val |-> <<0, 0, 47>>]

\* the letters of s in alternating case, starting in upper case
MixedCase(s) ==
    [i \in 1..Len(s) |-> IF i % 2 = 1 THEN UpperChar(s[i]) ELSE LowerChar(s[i])]

\* C14: for every 3- or 6-digit hex string, hex_to_hsl gives the same result
\* with and without the leading '#', and in whatever letter case the digits
\* are written.
C14_HashAndCase ==
    (Returned("hex_to_hsl") /\ (IsHex3(arg) \/ IsHex6(arg))) =>
        /\ ret.exc = "none"
        /\ ret = hex_to_hsl(IF Head(arg) = "#" THEN Body(arg) ELSE <<"#">> \o arg)
        /\ ret = hex_to_hsl(IF arg = Lower(arg) THEN Upper(arg) ELSE Lower(arg))
        /\ ret = hex_to_hsl(MixedCase(arg))

\* hex_to_hsl has been called with 'f90709', without '#', and has returned
\* what '#F90709' gives
C14_Witness ==
    /\ Returned("hex_to_hsl")
    /\ arg = <<"f","9","0","7","0","9">>
    /\ ret.exc = "none"
    /\ ret = hex_to_hsl(<<"#","F","9","0","7","0","9">>)
    /\ ret.val[1] = 360

(***************************************************************************)
(* Properties of convert_sass_variables_to_css                             *)
(***************************************************************************)
\* text.split("\n")
SplitLines(text) ==
    LET breaks == { i \in 1..Len(text) : text[i] = "\n" }
        \* the position of the k-th newline; 0 before the text, Len + 1 after it
        at(k) == IF k = 0 THEN 0
                 ELSE IF k > Cardinality(breaks) THEN Len(text) + 1
                 ELSE CHOOSE i \in breaks :
                          Cardinality({ m \in breaks : m < i }) = k - 1
    IN  [k \in 1..Cardinality(breaks) + 1 |-> SubSeq(text, at(k - 1) + 1, at(k) - 1)]

\* text.count(c)
Count(text, c) == Cardinality({ i \in 1..Len(text) : text[i] = c })

EndsWith(s, p) == Len(p) <= Len(s) /\ SubSeq(s, Len(s) - Len(p) + 1, Len(s)) = p

\* the lines of the returned block between its first line, ':root {', and its
\* last two, '}' and the empty line after the final newline
DeclLines ==
    LET lines == SplitLines(ret.val)
    IN  SubSeq(lines, 2, Len(lines) - 2)

\* the value is colour-like and hex_to_hsl succeeds on it
Converts(value) == is_color_value(value) /\ hex_to_hsl(value).exc = "none"

\* the number of declarations an item is to contribute
LinesDue(item) == IF Converts(item[2]) THEN 3 ELSE 1

RECURSIVE LinesDueUpTo(_, _)
LinesDueUpTo(variables, k) ==
    IF k = 0 THEN 0 ELSE LinesDueUpTo(variables, k - 1) + LinesDue(variables[k])

\* the lines, among the declaration lines decl, at the place of the i-th item
\* of arg, in iteration order
KeyLinesIn(decl, i) ==
    SubSeq(decl, LinesDueUpTo(arg, i - 1) + 1, LinesDueUpTo(arg, i))

KeyLines(i) == KeyLinesIn(DeclLines, i)

\* the base name an item is to get: its table entry, else '--bulma-' + name
BaseName(name) ==
    IF \E p \in variable_mapping : p[1] = name
    THEN (CHOOSE p \in variable_mapping : p[1] = name)[2]
    ELSE <<"-","-","b","u","l","m","a","-">> \o name

Indented(text) == <<" "," ">> \o text

\* C4: convert_sass_variables_to_css raises nothing, and an item whose value
\* is colour-like but on which hex_to_hsl fails gets the single declaration
\* '  {base}: {value};' and no -h, -s or -l declaration.
C4_FallbackToDirect ==
    Returned("convert_sass_variables_to_css") =>
        /\ ret.exc = "none"
        /\ LET decl == DeclLines
           IN  \A i \in 1..Len(arg) :
                 (is_color_value(arg[i][2]) /\ hex_to_hsl(arg[i][2]).exc # "none") =>
                    /\ KeyLinesIn(decl, i) =
                          << Indented(BaseName(arg[i][1])) \o <<":"," ">>
                                 \o arg[i][2] \o <<";">> >>
                    /\ \A j \in 1..Len(decl), c \in {"h", "s", "l"} :
                          ~StartsWith(decl[j],
                                      Indented(BaseName(arg[i][1])) \o <<"-", c, ":">>)

\* a colour-like value on which hex_to_hsl fails has been converted, after an
\* item that was expanded
C4_Witness ==
    /\ Returned("convert_sass_variables_to_css")
    /\ Len(arg) = 2
    /\ Converts(arg[1][2])
    /\ is_color_value(arg[2][2])
    /\ hex_to_hsl(arg[2][2]).exc = "ValueError"
    /\ ret.exc = "none"
    /\ Len(DeclLines) = 4

\* C5: every key contributes exactly one or exactly three declaration lines,
\* three (the -h, -s and -l lines, in that order) exactly when its value is
\* colour-like and hex_to_hsl succeeds on it, and the block holds the sum.
C5_OneOrThreeLines ==
    (Returned("convert_sass_variables_to_css") /\ arg # <<>>) =>
        /\ ret.exc = "none"
        /\ LET decl == DeclLines
           IN  /\ Len(decl) = LinesDueUpTo(arg, Len(arg))
               /\ \A i \in 1..Len(arg) :
                    LET base == Indented(BaseName(arg[i][1]))
                        key == KeyLinesIn(decl, i)
                        colour == Converts(arg[i][2])
                        heads == { base \o <<":">>, base \o <<"-","h",":">>,
                                   base \o <<"-","s",":">>, base \o <<"-","l",":">> }
                        \* the number of lines that declare base, base-h, -s or -l
                        head(line, n) == IF Len(line) < n THEN line
                                         ELSE SubSeq(line, 1, n)
                        own == Cardinality({ j \in 1..Len(decl) :
                                   \/ head(decl[j], Len(base) + 1) \in heads
                                   \/ head(decl[j], Len(base) + 3) \in heads })
                    IN  /\ own \in {1, 3}
                        /\ own = 3 <=> colour
                        /\ Len(key) = own
                        /\ colour =>
                              /\ StartsWith(key[1], base \o <<"-","h",":">>)
                              /\ StartsWith(key[2], base \o <<"-","s",":">>)
                              /\ StartsWith(key[3], base \o <<"-","l",":">>)
                        /\ ~colour => StartsWith(key[1], base \o <<":">>)

\* a mapping of one colour and one other value has given four lines
C5_Witness ==
    /\ Returned("convert_sass_variables_to_css")
    /\ Len(arg) = 2
    /\ ~Converts(arg[1][2])
    /\ Converts(arg[2][2])
    /\ Len(DeclLines) = 4

HasBrace(text) == \E i \in 1..Len(text) : text[i] \in {"{", "}"}

\* C6 as claimed: for every non-empty mapping the output starts with
\* ':root {', ends with '}' and a newline, holds exactly one '{' and exactly
\* one '}', and every declaration line is indented by two spaces.
C6_Original ==
    (Returned("convert_sass_variables_to_css") /\ arg # <<>>) =>
        /\ ret.exc = "none"
        /\ StartsWith(ret.val, <<":","r","o","o","t"," ","{">>)
        /\ EndsWith(ret.val, <<"}","\n">>)
        /\ Count(ret.val, "{") = 1
        /\ Count(ret.val, "}") = 1
        /\ LET decl == DeclLines
           IN  \A j \in 1..Len(decl) : StartsWith(decl[j], <<" "," ">>)

\* C6 as amended: for every non-empty mapping the output starts with
\* ':root {', ends with '}' and a newline, and every declaration line is
\* indented by two spaces; it holds exactly one '{' and exactly one '}'
\* provided no name and no value of the mapping holds a brace (names and
\* values are copied into the block unescaped).
C6_BlockStructure ==
    (Returned("convert_sass_variables_to_css") /\ arg # <<>>) =>
        /\ ret.exc = "none"
        /\ StartsWith(ret.val, <<":","r","o","o","t"," ","{","\n">>)
        /\ EndsWith(ret.val, <<"\n","}","\n">>)
        /\ LET decl == DeclLines
           IN  \A j \in 1..Len(decl) : StartsWith(decl[j], <<" "," ">>)
        /\ (\A i \in 1..Len(arg) : ~HasBrace(arg[i][1]) /\ ~HasBrace(arg[i][2])) =>
              /\ Count(ret.val, "{") = 1
              /\ Count(ret.val, "}") = 1

\* a mapping of two items without braces has given a block with one brace pair
C6_Witness ==
    /\ Returned("convert_sass_variables_to_css")
    /\ Len(arg) = 2
    /\ \A i \in 1..Len(arg) : ~HasBrace(arg[i][1]) /\ ~HasBrace(arg[i][2])
    /\ Count(ret.val, "{") = 1
    /\ Count(ret.val, "}") = 1

\* C7: the empty string is returned if and only if the mapping is empty; a
\* non-empty mapping gives a non-empty ':root' block.
C7_EmptyIffEmpty ==
    Returned("convert_sass_variables_to_css") =>
        /\ ret.exc = "none"
        /\ ret.val = <<>> <=> arg = <<>>
        /\ arg # <<>> => StartsWith(ret.val, <<":","r","o","o","t"," ","{">>)

\* the empty mapping has been converted to the empty string
C7_Witness ==
    /\ Returned("convert_sass_variables_to_css")
    /\ arg = <<>>
    /\ ret = [exc |-> "none", val |-> <<>>]

\* C8: the base name of every declaration of a key is the key's entry in the
\* table of get_variable_mapping, and '--bulma-' followed by the raw name for
\* a key that is not in the table; no key is dropped.
C8_BaseName ==
    (Returned("convert_sass_variables_to_css") /\ arg # <<>>) =>
        /\ ret.exc = "none"
        /\ LET decl == DeclLines
           IN  \A i \in 1..Len(arg) :
                 LET base == Indented(BaseName(arg[i][1]))
                     key == KeyLinesIn(decl, i)
                 IN  /\ key # <<>>
                     /\ \A j \in 1..Len(key) :
                           \/ StartsWith(key[j], base \o <<":"," ">>)
                           \/ \E c \in {"h", "s", "l"} :
                                 StartsWith(key[j], base \o <<"-", c, ":"," ">>)

\* a key of the table and a key outside it have been converted:
\* 'custom-var' has become '--bulma-custom-var'
C8_Witness ==
    /\ Returned("convert_sass_variables_to_css")
    /\ Len(arg) = 2
    /\ arg[1][1] = <<"p","r","i","m","a","r","y">>
    /\ arg[2] = << <<"c","u","s","t","o","m","-","v","a","r">>, <<"5","p","x">> >>
    /\ KeyLines(2) = << <<" "," ","-","-","b","u","l","m","a","-","c","u","s","t","o","m",
                          "-","v","a","r",":"," ","5","p","x",";">> >>

\* the places, among the declaration lines decl, of the lines that declare
\* the base name of the given variable or its -h, -s, -l components
OwnLines(decl, name) ==
    LET base == Indented(BaseName(name))
        heads == { base \o <<":">>, base \o <<"-","h",":">>,
                   base \o <<"-","s",":">>, base \o <<"-","l",":">> }
        head(line, n) == IF Len(line) < n THEN line ELSE SubSeq(line, 1, n)
    IN  { j \in 1..Len(decl) :
            \/ head(decl[j], Len(base) + 1) \in heads
            \/ head(decl[j], Len(base) + 3) \in heads }

\* C13: within one call of convert_sass_variables_to_css the declarations
\* appear in the iteration order of the input mapping: for keys a before b in
\* the input, all lines of a precede all lines of b, and for a colour the
\* three lines are emitted in the order -h, -s, -l.
C13_InputOrder ==
    (Returned("convert_sass_variables_to_css") /\ ret.exc = "none") =>
        LET decl == DeclLines
            own == [i \in 1..Len(arg) |-> OwnLines(decl, arg[i][1])]
        IN  /\ \A i \in 1..Len(arg) : own[i] # {}
            /\ \A i, j \in 1..Len(arg) :
                  i < j => \A a \in own[i], b \in own[j] : a < b
            /\ \A i \in 1..Len(arg) :
                  Converts(arg[i][2]) =>
                      LET base == Indented(BaseName(arg[i][1]))
                      IN  \E a \in own[i] :
                             /\ own[i] = {a, a + 1, a + 2}
                             /\ StartsWith(decl[a], base \o <<"-","h",":">>)
                             /\ StartsWith(decl[a + 1], base \o <<"-","s",":">>)
                             /\ StartsWith(decl[a + 2], base \o <<"-","l",":">>)

\* a mapping with a font first and a colour second has been converted: the
\* font's line is the first declaration, the colour's three lines follow
C13_Witness ==
    /\ Returned("convert_sass_variables_to_css")
    /\ Len(arg) = 2
    /\ arg[1] = << <<"f","a","m","i","l","y","-","p","r","i","m","a","r","y">>,
                   <<"A","r","i","a","l">> >>
    /\ arg[2] = << <<"p","r","i","m","a","r","y">>, <<"#","f","0","0">> >>
    /\ ret.exc = "none"
    /\ Len(DeclLines) = 4
    /\ OwnLines(DeclLines, arg[1][1]) = {1}
    /\ OwnLines(DeclLines, arg[2][1]) = {2, 3, 4}

(***************************************************************************)
(* Python values of more than one type, dictionaries, the order of str     *)
(***************************************************************************)
\* a value that may be None, a str, a list or a dict carries its type
None == [type |-> "NoneType", value |-> <<>>]
PyStr(text) == [type |-> "str", value |-> text]
PyList(items) == [type |-> "list", value |-> items]
PyDict(items) == [type |-> "dict", value |-> items]

\* bool(value)
Truthy(value) == value.value # <<>>

\* a dict is the sequence of its <<key, value>> items in iteration order
DictHas(dict, key) == \E i \in 1..Len(dict) : dict[i][1] = key

DictGet(dict, key) == dict[CHOOSE i \in 1..Len(dict) : dict[i][1] = key][2]

\* dict.update(other): a key the dict has keeps its place and takes the new
\* value, a new key goes to the end
RECURSIVE DictUpdate(_, _)
DictUpdate(dict, other) ==
    IF other = <<>> THEN dict
    ELSE LET key == Head(other)[1]
             set == IF DictHas(dict, key)
                    THEN [i \in 1..Len(dict) |->
                             IF dict[i][1] = key THEN Head(other) ELSE dict[i]]
                    ELSE Append(dict, Head(other))
         IN  DictUpdate(set, Tail(other))

\* the characters of file names, in code-point order
Ascii == <<
    "-",".","/","0","1","2","3","4","5","6","7","8","9",
    "A","B","C","D","E","F","G","H","I","J","K","L","M",
    "N","O","P","Q","R","S","T","U","V","W","X","Y","Z","_",
    "a","b","c","d","e","f","g","h","i","j","k","l","m",
    "n","o","p","q","r","s","t","u","v","w","x","y","z" >>

Ord(c) == CHOOSE i \in 1..Len(Ascii) : Ascii[i] = c

\* a < b for two str
StrLess(a, b) ==
    \E k \in 1..Len(b) :
        /\ \A i \in 1..k - 1 : i <= Len(a) /\ a[i] = b[i]
        /\ k > Len(a) \/ (k <= Len(a) /\ Ord(a[k]) < Ord(b[k]))

\* sorted(names) of a set of distinct str
RECURSIVE Sorted(_)
Sorted(names) ==
    IF names = {} THEN <<>>
    ELSE LET least == CHOOSE a \in names : \A b \in names \ {a} : StrLess(a, b)
         IN  <<least>> \o Sorted(names \ {least})

\* sub in text, for two str
IsSubstring(sub, text) ==
    \E i \in 1..Len(text) - Len(sub) + 1 : SubSeq(text, i, i + Len(sub) - 1) = sub

(***************************************************************************)
(* The files on disk and the settings                                      *)
(***************************************************************************)
\* utils.py line 34: the directory of the package
simple_bulma_path == Path(<<"/","p","k","g">>)

\* path / "name" for a str
Sub(path, text) == PathJoin(path, Path(text))

\* path.exists() for a file
Exists(files, path) == PathStr(path) \in DOMAIN files

\* the files of the disk in a directory or below it
Below(files, dir) ==
    { f \in DOMAIN files :
        LET p == Path(f)
        IN  /\ p.root = dir.root
            /\ Len(p.parts) > Len(dir.parts)
            /\ SubSeq(p.parts, 1, Len(dir.parts)) = dir.parts }

\* the names of dir.iterdir(): the files and directories in dir
IterDir(files, dir) ==
    { Path(f).parts[Len(dir.parts) + 1] : f \in Below(files, dir) }

\* the directories of the disk: every proper ancestor of a file
DirsOf(files) ==
    UNION { { PathStr([root |-> Path(f).root, parts |-> SubSeq(Path(f).parts, 1, k)]) :
                k \in 1..Len(Path(f).parts) - 1 } : f \in DOMAIN files }

\* fnmatch of a file name against a pattern of literal characters, '*' and
\* one-character classes '[..]'
RECURSIVE GlobMatch(_, _)
GlobMatch(name, pattern) ==
    IF pattern = <<>> THEN name = <<>>
    ELSE IF Head(pattern) = "*"
    THEN \E k \in 0..Len(name) :
            GlobMatch(SubSeq(name, k + 1, Len(name)), Tail(pattern))
    ELSE IF Head(pattern) = "["
    THEN LET close == CHOOSE j \in 2..Len(pattern) :
                          pattern[j] = "]" /\ \A m \in 2..j - 1 : pattern[m] # "]"
         IN  /\ name # <<>>
             /\ \E m \in 2..close - 1 : pattern[m] = Head(name)
             /\ GlobMatch(Tail(name), SubSeq(pattern, close + 1, Len(pattern)))
    ELSE /\ name # <<>>
         /\ Head(name) = Head(pattern)
         /\ GlobMatch(Tail(name), Tail(pattern))

\* dir.rglob(pattern): the files and directories at any depth below dir whose
\* name matches, as a set; the order in which they come is the directory's
RGlob(files, dir, pattern) ==
    { e \in DOMAIN files \cup DirsOf(files) :
        LET p == Path(e)
        IN  /\ p.root = dir.root
            /\ Len(p.parts) > Len(dir.parts)
            /\ SubSeq(p.parts, 1, Len(dir.parts)) = dir.parts
            /\ GlobMatch(PathName(p), pattern) }

\* dir.glob(pattern) for a pattern without '/': the matches in dir itself
Glob(files, dir, pattern) ==
    { e \in RGlob(files, dir, pattern) : Len(Path(e).parts) = Len(dir.parts) + 1 }

\* settings.BULMA_SETTINGS.get(key, default), default when there is no
\* BULMA_SETTINGS
BulmaSetting(key, default) ==
    IF settings.has_bulma_settings /\ DictHas(settings.BULMA_SETTINGS, key)
    THEN DictGet(settings.BULMA_SETTINGS, key)
    ELSE default

\* utils.py lines 66-79: is_enabled(extension) for the name of an extension
is_enabled(name) ==
    LET current_extensions == BulmaSetting(<<"e","x","t","e","n","s","i","o","n","s">>, PyList(<<>>))
    IN  \/ current_extensions = PyStr(<<"a","l","l">>)
        \/ /\ current_extensions.type = "list"
           /\ \E i \in 1..Len(current_extensions.value) : current_extensions.value[i] = name
        \/ /\ current_extensions.type = "str"
           /\ IsSubstring(name, current_extensions.value)

(***************************************************************************)
(* SimpleBulmaFinder                                                       *)
(***************************************************************************)
\* finders.py line 42
bulma_submodule_path == Sub(Sub(simple_bulma_path, <<"b","u","l","m","a">>), <<"s","a","s","s">>)

\* mutant: only find_all is looked at
find_FindAllOnly(path, find_all, all) ==
    LET absolute_path == PathStr(Sub(simple_bulma_path, path))
    IN  IF find_all THEN PyList(<<absolute_path>>) ELSE PyStr(absolute_path)

\* lines 338-352: find(path, find_all, all)
find(path, find_all, all) ==
    LET absolute_path == PathStr(Sub(simple_bulma_path, path))
    IN  IF find_all \/ all THEN PyList(<<absolute_path>>) ELSE PyStr(absolute_path)

\* lines 206-216: what one extension adds to extension_css_parts: for each
\* '*.css' of its dist folder that is not minified, a header and the text of
\* the file; a directory of such a name cannot be opened and is skipped.
\* glob yields in the order of the directory; the sorted order stands for it
ExtensionCssParts(files, name) ==
    LET dist_dir == Sub(Sub(Sub(simple_bulma_path, <<"e","x","t","e","n","s","i","o","n","s">>), name), <<"d","i","s","t">>)
        css_files == Sorted({ f \in Glob(files, dist_dir, <<"*",".","c","s","s">>) :
                                /\ ~EndsWith(PathName(Path(f)), <<".","m","i","n",".","c","s","s">>)
                                /\ f \in DOMAIN files })
        header == <<"/","*"," ","E","x","t","e","n","s","i","o","n",":"," ">> \o name \o <<" ","*","/">>
        RECURSIVE parts(_)
        parts(k) == IF k > Len(css_files) THEN <<>>
                    ELSE <<header, files[css_files[k]]>> \o parts(k + 1)
    IN  parts(1)

\* lines 196-221: _get_extension_css()
RECURSIVE ExtensionCssFrom(_, _)
ExtensionCssFrom(files, names) ==
    IF names = <<>> THEN <<>>
    ELSE (IF is_enabled(Head(names)) THEN ExtensionCssParts(files, Head(names)) ELSE <<>>)
         \o ExtensionCssFrom(files, Tail(names))

get_extension_css(files) ==
    JoinWith(ExtensionCssFrom(files, Sorted(IterDir(files, Sub(simple_bulma_path, <<"e","x","t","e","n","s","i","o","n","s">>)))),
             <<"\n">>)

\* lines 141-142: the pre-compiled stylesheet
precompiled_css == Sub(Sub(Sub(simple_bulma_path, <<"b","u","l","m","a">>), <<"c","s","s">>), <<"b","u","l","m","a",".","m","i","n",".","c","s","s">>)

\* line 184: f"css/{theme + '_' if theme else ''}bulma.css"
ThemePath_NoThemeName(theme) == <<"c","s","s","/","b","u","l","m","a",".","c","s","s">>

ThemePath(theme) ==
    <<"c","s","s","/">> \o (IF theme # <<>> THEN theme \o <<"_">> ELSE <<>>) \o <<"b","u","l","m","a",".","c","s","s">>

\* lines 162-166: the dict after the update with the theme's variables, when
\* the theme is named and the settings have them
Overridden(variables, theme) ==
    LET theme_key == theme \o <<"_","v","a","r","i","a","b","l","e","s">>
    IN  IF /\ theme # <<>>
           /\ settings.has_bulma_settings
           /\ DictHas(settings.BULMA_SETTINGS, theme_key)
        THEN DictUpdate(variables, DictGet(settings.BULMA_SETTINGS, theme_key).value)
        ELSE variables

\* mutant: the update is made on self.variables itself
ThemeVariables_NoCopy(self_variables, theme) ==
    [variables |-> Overridden(self_variables, theme),
     self_variables |-> Overridden(self_variables, theme)]

\* lines 161-166: the variables of one theme, made on a copy of
\* self.variables, and self.variables as the pass leaves it
ThemeVariables(self_variables, theme) ==
    [variables |-> Overridden(self_variables, theme),
     self_variables |-> self_variables]

\* lines 177-181: the variables, when there are any, go before the
\* pre-compiled stylesheet and the extensions' css, when there is any, after it
JoinCss(css_variables, extension_css, base_css) ==
    IF css_variables.exc # "none" THEN css_variables
    ELSE [exc |-> "none",
          val |-> (IF css_variables.val # <<>> THEN css_variables.val \o <<"\n">> ELSE <<>>)
                  \o base_css
                  \o (IF extension_css # <<>> THEN <<"\n">> \o extension_css ELSE <<>>)]

\* lines 169-181: the text of one theme's file
FinalCss(files, base_css, variables, has_extensions) ==
    JoinCss(convert_sass_variables_to_css(variables),
            IF has_extensions THEN get_extension_css(files) ELSE <<>>,
            base_css)

RECURSIVE Bulma1Loop(_, _, _, _, _, _, _)
\* lines 184-192: the end of the pass for the k-th name: the text is
\* written to the theme's file, the path is appended, and the loop goes on
Bulma1Write(theme_names, k, has_extensions, base_css, files, theme_paths, self_variables, final_css) ==
    IF final_css.exc # "none"
    THEN [exc |-> final_css.exc, disk |-> files, variables |-> self_variables]
    ELSE Bulma1Loop(theme_names, k + 1, has_extensions, base_css,
                    (PathStr(Sub(simple_bulma_path, ThemePath(theme_names[k]))) :> final_css.val) @@ files,
                    Append(theme_paths, ThemePath(theme_names[k])), self_variables)

\* lines 161-192: one pass of the loop, for the variables of its theme
Bulma1Pass(theme_names, k, has_extensions, base_css, files, theme_paths, theme_variables) ==
    Bulma1Write(theme_names, k, has_extensions, base_css, files, theme_paths,
                theme_variables.self_variables,
                FinalCss(files, base_css, theme_variables.variables, has_extensions))

\* lines 159-192: the loop over theme_names from the k-th name on; files is
\* the disk, theme_paths the list and self_variables the finder's variables
\* as the earlier passes left them
Bulma1Loop(theme_names, k, has_extensions, base_css, files, theme_paths, self_variables) ==
    IF k > Len(theme_names)
    THEN [exc |-> "none", val |-> theme_paths, disk |-> files, variables |-> self_variables]
    ELSE Bulma1Pass(theme_names, k, has_extensions, base_css, files, theme_paths,
                    ThemeVariables(self_variables, theme_names[k]))

\* mutant: the existence of the pre-compiled stylesheet is tested after the loop
get_bulma_1_css_LateTest(themes, has_extensions) ==
    LET base_css == IF Exists(disk, precompiled_css) THEN disk[PathStr(precompiled_css)] ELSE <<>>
        done == Bulma1Loop(<< <<>> >> \o themes, 1, has_extensions, base_css, disk, <<>>,
                           finder.variables)
    IN  IF ~Exists(disk, precompiled_css)
        THEN [exc |-> "FileNotFoundError", disk |-> done.disk, variables |-> done.variables]
        ELSE done

\* lines 129-194: _get_bulma_1_css(themes, has_extensions): what it returns
\* or raises, and the disk it leaves
get_bulma_1_css(themes, has_extensions) ==
    IF ~Exists(disk, precompiled_css)
    THEN [exc |-> "FileNotFoundError", disk |-> disk, variables |-> finder.variables]
    ELSE Bulma1Loop(<< <<>> >> \o themes, 1, has_extensions,
                    disk[PathStr(precompiled_css)], disk, <<>>, finder.variables)

\* the find(path) of another finder: the file below the finder's root when
\* the finder has it, else what this finder answers for a file it has not
OtherFind(other, path) ==
    IF path \in other.has THEN PyStr(other.root \o <<"/">> \o path) ELSE other.miss

\* mutant: the result of the last finder is taken, found or not
FirstFound_LastAnswer(other_finders, k, relative_path) ==
    IF other_finders = <<>> THEN None
    ELSE OtherFind(other_finders[Len(other_finders)], relative_path)

\* lines 301-305: the result of the first finder, from the k-th on, whose
\* result is neither false nor []; None when there is none
RECURSIVE FirstFound(_, _, _)
FirstFound(other_finders, k, relative_path) ==
    IF k > Len(other_finders) THEN None
    ELSE LET found_path == OtherFind(other_finders[k], relative_path)
         IN  IF Truthy(found_path) /\ found_path # PyList(<<>>) THEN found_path
             ELSE FirstFound(other_finders, k + 1, relative_path)

\* text.replace("\\", "/")
ForwardSlashes(text) == [i \in 1..Len(text) |-> IF text[i] = "\\" THEN "/" ELSE text[i]]

\* sass.compile(string=scss_string, output_style=...): the compiler is not
\* part of the program; its output is written as the text it was given
SassCompile(scss_string) == <<"/","*"," ","c","o","m","p","i","l","e","d"," ","*","/"," ">> \o scss_string

\* lines 295-334: the loop over custom_scss from the k-th entry on
RECURSIVE CustomLoop(_, _, _)
CustomLoop(k, files, paths) ==
    IF k > Len(finder.custom_scss)
    THEN [exc |-> "none", val |-> paths, disk |-> files]
    ELSE LET scss_path == finder.custom_scss[k]
             relative_path == AfterFirst(scss_path, <<"s","t","a","t","i","c","/">>)
             found == FirstFound(finder.other_finders, 1, relative_path)
             absolute_path == ForwardSlashes(found.value)
             scss_string == <<"@","i","m","p","o","r","t"," ","\"">> \o absolute_path \o <<"\"",";">>
             relative == Path(relative_path)
             folder == PathStr(PathJoin(simple_bulma_path, PathParent(relative)))
             css_path == folder \o <<"/">> \o PathStem(relative) \o <<".","c","s","s">>
             path == PathStr(PathParent(relative)) \o <<"/">> \o PathStem(relative) \o <<".","c","s","s">>
         IN  IF ~Truthy(found) THEN [exc |-> "ValueError", disk |-> files]
             ELSE CustomLoop(k + 1, (css_path :> SassCompile(scss_string)) @@ files,
                             Append(paths, path))

\* lines 291-336: _get_custom_css()
get_custom_css == CustomLoop(1, disk, <<>>)

(***************************************************************************)
(* One call of a method of the finder                                      *)
(***************************************************************************)
\* all sequences over a set, up to a length
SeqsUpTo(set, n) == UNION { [1..k -> set] : k \in 0..n }

\* the paths drawn for find: every str over three characters, and two samples
PathChars == {"a", "/", "."}

FindPaths ==
    SeqsUpTo(PathChars, MaxPathLen) \cup { <<"c","s","s","/","b","u","l","m","a",".","c","s","s">>, <<"/","e","t","c","/","x",".","c","s","s">>, <<"a","/","/","b","/",".","/","c",".","j","s">> }

ThemeNames == { <<"d","a","r","k">>, <<"l","i","g","h","t">> }

\* the BULMA_SETTINGS drawn: with or without extensions, with or without
\* variables for the themes 'dark' and 'light'
ExtensionsDrawn == { PyStr(<<"a","l","l">>), PyList(<< <<"b","u","l","m","a","-","x">> >>), PyList(<<>>) }

DarkVariablesDrawn == { PyDict(<< << <<"p","r","i","m","a","r","y">>, <<"#","0","0","0">> >> >>) }

LightVariablesDrawn == { PyDict(<< << <<"l","i","n","k">>, <<"#","0","0","f">> >> >>) }

BulmaSettingsDrawn ==
    { e \o v \o l :
        e \in { <<>> } \cup { << << <<"e","x","t","e","n","s","i","o","n","s">>, x >> >> : x \in ExtensionsDrawn },
        v \in { <<>> } \cup { << << <<"d","a","r","k","_","v","a","r","i","a","b","l","e","s">>, x >> >> : x \in DarkVariablesDrawn },
        l \in { <<>> } \cup { << << <<"l","i","g","h","t","_","v","a","r","i","a","b","l","e","s">>, x >> >> : x \in LightVariablesDrawn } }

SettingsDrawn ==
    { [has_bulma_settings |-> FALSE] }
    \cup { [has_bulma_settings |-> TRUE, BULMA_SETTINGS |-> b] : b \in BulmaSettingsDrawn }

\* the finder's variables drawn
FinderVariablesDrawn == { <<>>, << << <<"p","r","i","m","a","r","y">>, <<"#","f","0","0">> >> >> }

\* the disks drawn for _get_bulma_1_css: the pre-compiled stylesheet is there
\* or not, with or without a custom property of its own; an extension has a
\* stylesheet and its minified form or not
PrecompiledDrawn ==
    { <<>>,
      PathStr(precompiled_css) :> <<"b","{","}">>,
      PathStr(precompiled_css) :> <<":","r","o","o","t","{","-","-","b","u","l","m","a","-","p","r","i","m","a","r","y","-","l",":","4","1","%","}","b","{","}">> }

ExtensionFilesDrawn ==
    { <<>>,
      (<<"/","p","k","g","/","e","x","t","e","n","s","i","o","n","s","/","b","u","l","m","a","-","x","/","d","i","s","t","/","x",".","c","s","s">> :> <<"x","{","}">>)
      @@ (<<"/","p","k","g","/","e","x","t","e","n","s","i","o","n","s","/","b","u","l","m","a","-","x","/","d","i","s","t","/","x",".","m","i","n",".","c","s","s">> :> <<"m","{","}">>)
      @@ (<<"/","p","k","g","/","e","x","t","e","n","s","i","o","n","s","/","b","u","l","m","a","-","y","/","d","i","s","t","/","c","s","s","/","y",".","c","s","s">> :> <<"y","{","}">>) }

\* the finder of a call that does not read its fields
PlainFinder == [variables |-> <<>>, custom_scss |-> <<>>, other_finders |-> <<>>]

\* the custom_scss entries drawn
ScssPaths == { <<"c","s","s","/","a",".","s","c","s","s">>, <<"a","p","p","/","s","t","a","t","i","c","/","c","s","s","/","a",".","s","c","s","s">>, <<"b",".","s","c","s","s">>, <<"t","/","c",".","d",".","s","c","s","s">> }

RelativeScssPaths == { AfterFirst(e, <<"s","t","a","t","i","c","/">>) : e \in ScssPaths }

\* the other finders drawn: what each has and what it answers for the rest
FinderKinds == {
    [has |-> {}, miss |-> None],
    [has |-> {}, miss |-> PyStr(<<>>)],
    [has |-> {}, miss |-> PyList(<<>>)],
    [has |-> { <<"c","s","s","/","a",".","s","c","s","s">> }, miss |-> None],
    [has |-> RelativeScssPaths, miss |-> PyList(<<>>)] }

\* the root of the i-th configured finder
FinderRoots == << <<"/","f","1">>, <<"C",":","\\","f","2">>, <<"/","f","3">>, <<"/","f","4">> >>

OtherFindersDrawn ==
    { [i \in 1..Len(kinds) |->
          [root |-> FinderRoots[i], has |-> kinds[i].has, miss |-> kinds[i].miss]] :
      kinds \in SeqsUpTo(FinderKinds, MaxFinders) }

InitFind ==
    /\ fn = "find"
    /\ arg \in [path : FindPaths, find_all : BOOLEAN, all : BOOLEAN]
    /\ settings = [has_bulma_settings |-> FALSE]
    /\ finder = PlainFinder
    /\ disk = <<>>

InitGetBulma1Css ==
    /\ fn = "_get_bulma_1_css"
    /\ arg \in [themes : SeqsUpTo(ThemeNames, MaxThemes), has_extensions : BOOLEAN]
    /\ settings \in SettingsDrawn
    /\ finder \in { [PlainFinder EXCEPT !.variables = v] : v \in FinderVariablesDrawn }
    /\ disk \in { p @@ e : p \in PrecompiledDrawn, e \in ExtensionFilesDrawn }

InitGetCustomCss ==
    /\ fn = "_get_custom_css"
    /\ arg = <<>>
    /\ settings = [has_bulma_settings |-> FALSE]
    /\ finder \in { [PlainFinder EXCEPT !.custom_scss = c, !.other_finders = o] :
                      c \in SeqsUpTo(ScssPaths, MaxScss), o \in OtherFindersDrawn }
    /\ disk = <<>>

InitFinder ==
    /\ pc = "call"
    /\ ret = Pending
    /\ log = <<>>
    /\ tables = <<>>
    /\ locals = <<>>
    /\ InitFind \/ InitGetBulma1Css \/ InitGetCustomCss

Find ==
    /\ pc = "call"
    /\ fn = "find"
    /\ ret' = [exc |-> "none", val |-> find(arg.path, arg.find_all, arg.all)]
    /\ pc' = "done"
    /\ UNCHANGED <<fn, arg, surroundings>>

\* a method that writes files ends: ret takes what it returned or raised,
\* disk the files as it left them
MethodEnds(done) ==
    /\ ret' = IF done.exc = "none" THEN [exc |-> "none", val |-> done.val]
              ELSE [exc |-> done.exc]
    /\ disk' = done.disk

\* a method of the finder ends that may also have changed self.variables
MethodEndsSelf(done) ==
    /\ MethodEnds(done)
    /\ finder' = [finder EXCEPT !.variables = done.variables]

GetBulma1Css ==
    /\ pc = "call"
    /\ fn = "_get_bulma_1_css"
    /\ MethodEndsSelf(get_bulma_1_css(arg.themes, arg.has_extensions))
    /\ pc' = "done"
    /\ UNCHANGED <<fn, arg, settings, log, tables, locals>>

GetCustomCss ==
    /\ pc = "call"
    /\ fn = "_get_custom_css"
    /\ MethodEnds(get_custom_css)
    /\ pc' = "done"
    /\ UNCHANGED <<fn, arg, settings, finder, log, tables, locals>>

NextFinder == Find \/ GetBulma1Css \/ GetCustomCss

SpecFinder == InitFinder /\ [][NextFinder]_vars

(***************************************************************************)
(* Properties of the finder                                                *)
(***************************************************************************)
\* C15: find(path) returns the single string simple_bulma_path / path when
\* neither all nor find_all is true, and a one-element list holding that same
\* string when either flag is true; find(path, all=True) equals
\* find(path, find_all=True) for every path.
C15_FindShape ==
    Returned("find") =>
        LET absolute == PathStr(PathJoin(simple_bulma_path, Path(arg.path)))
        IN  /\ ret.exc = "none"
            /\ ~(arg.find_all \/ arg.all) => ret.val = PyStr(absolute)
            /\ (arg.find_all \/ arg.all) => ret.val = PyList(<<absolute>>)
            /\ ret.val = find(arg.path, arg.all, arg.find_all)

\* find('css/bulma.css', all=True) has returned the list ['/pkg/css/bulma.css']
C15_Witness ==
    /\ Returned("find")
    /\ arg = [path |-> <<"c","s","s","/","b","u","l","m","a",".","c","s","s">>, find_all |-> FALSE, all |-> TRUE]
    /\ ret = [exc |-> "none", val |-> PyList(<< <<"/","p","k","g","/","c","s","s","/","b","u","l","m","a",".","c","s","s">> >>)]

\* C16: for any list of theme names, _get_bulma_1_css returns exactly
\* 1 + len(themes) paths: 'css/bulma.css' for the default theme first, then
\* 'css/{theme}_bulma.css' for each theme in the given order, and it has
\* written one file for every path it returns.
C16_ThemePaths ==
    (Returned("_get_bulma_1_css") /\ Exists(disk, precompiled_css)) =>
        /\ ret.exc = "none"
        /\ Len(ret.val) = 1 + Len(arg.themes)
        /\ ret.val[1] = <<"c","s","s","/","b","u","l","m","a",".","c","s","s">>
        /\ \A i \in 1..Len(arg.themes) :
              ret.val[i + 1] = <<"c","s","s","/">> \o arg.themes[i] \o <<"_","b","u","l","m","a",".","c","s","s">>
        /\ \A i \in 1..Len(ret.val) :
              (<<"/","p","k","g","/">> \o ret.val[i]) \in DOMAIN disk

\* _get_bulma_1_css(['light', 'dark'], ...) has returned three paths and the
\* three files are on disk
C16_Witness ==
    /\ Returned("_get_bulma_1_css")
    /\ arg.themes = << <<"l","i","g","h","t">>, <<"d","a","r","k">> >>
    /\ ret = [exc |-> "none",
              val |-> << <<"c","s","s","/","b","u","l","m","a",".","c","s","s">>, <<"c","s","s","/","l","i","g","h","t","_","b","u","l","m","a",".","c","s","s">>, <<"c","s","s","/","d","a","r","k","_","b","u","l","m","a",".","c","s","s">> >>]
    /\ { <<"/","p","k","g","/","c","s","s","/","b","u","l","m","a",".","c","s","s">>, <<"/","p","k","g","/","c","s","s","/","l","i","g","h","t","_","b","u","l","m","a",".","c","s","s">>, <<"/","p","k","g","/","c","s","s","/","d","a","r","k","_","b","u","l","m","a",".","c","s","s">> }
           \subseteq DOMAIN disk

\* C17: when the pre-compiled css/bulma.min.css does not exist,
\* _get_bulma_1_css raises FileNotFoundError before writing any theme file
\* and before returning any path, for every theme list and extension setting:
\* the call ends with that exception and leaves the disk as it was.
C17_MissingPrecompiled ==
    [][ (/\ pc = "call"
         /\ fn = "_get_bulma_1_css"
         /\ ~Exists(disk, precompiled_css)
         /\ pc' = "done")
        => (/\ ret' = [exc |-> "FileNotFoundError"]
            /\ disk' = disk) ]_vars

\* _get_bulma_1_css has raised FileNotFoundError for two themes with
\* extensions enabled and present, and no theme file is on disk
C17_Witness ==
    /\ Returned("_get_bulma_1_css")
    /\ Len(arg.themes) = 2
    /\ arg.has_extensions
    /\ is_enabled(<<"b","u","l","m","a","-","x">>)
    /\ <<"/","p","k","g","/","e","x","t","e","n","s","i","o","n","s","/","b","u","l","m","a","-","x","/","d","i","s","t","/","x",".","c","s","s">> \in DOMAIN disk
    /\ ret = [exc |-> "FileNotFoundError"]
    /\ ~Exists(disk, precompiled_css)
    /\ \A f \in DOMAIN disk : ~StartsWith(f, <<"/","p","k","g","/","c","s","s","/">>)

\* the relative path of the i-th custom_scss entry
RelativeOf(i) == AfterFirst(finder.custom_scss[i], <<"s","t","a","t","i","c","/">>)

\* the finders, by position, that have the file of the i-th entry
Locating(i) ==
    { k \in 1..Len(finder.other_finders) : RelativeOf(i) \in finder.other_finders[k].has }

\* C18: if any entry of custom_scss cannot be located by any of the other
\* configured finders (a result that is None, '' or [] counts as not found),
\* _get_custom_css raises ValueError and returns no paths, whatever the
\* position of the missing entry; when every entry is found it returns
\* exactly one '{parent}/{stem}.css' path per entry in configured order, and
\* the file of each entry is compiled from what the first finder that finds
\* it answers.
C18_CustomCss ==
    Returned("_get_custom_css") =>
        LET entries == 1..Len(finder.custom_scss)
            relative(i) == Path(RelativeOf(i))
            first(i) == CHOOSE k \in Locating(i) : \A m \in Locating(i) : k <= m
            source(i) == ForwardSlashes(finder.other_finders[first(i)].root
                                        \o <<"/">> \o RelativeOf(i))
        IN  /\ (\E i \in entries : Locating(i) = {}) => ret = [exc |-> "ValueError"]
            /\ (\A i \in entries : Locating(i) # {}) =>
                  /\ ret.exc = "none"
                  /\ Len(ret.val) = Len(finder.custom_scss)
                  /\ \A i \in entries :
                        /\ ret.val[i] = PathStr(PathParent(relative(i))) \o <<"/">>
                                        \o PathStem(relative(i)) \o <<".","c","s","s">>
                        /\ LET css_path == PathStr(Sub(simple_bulma_path, ret.val[i]))
                           IN  /\ css_path \in DOMAIN disk
                               /\ disk[css_path] =
                                     SassCompile(<<"@","i","m","p","o","r","t"," ","\"">> \o source(i) \o <<"\"",";">>)

\* two entries have been compiled: the first finder answers [] for both, the
\* second has them, and both paths are returned in configured order
C18_Witness ==
    /\ Returned("_get_custom_css")
    /\ finder.custom_scss = << <<"a","p","p","/","s","t","a","t","i","c","/","c","s","s","/","a",".","s","c","s","s">>, <<"t","/","c",".","d",".","s","c","s","s">> >>
    /\ Len(finder.other_finders) = 2
    /\ finder.other_finders[1].has = {}
    /\ finder.other_finders[1].miss = PyList(<<>>)
    /\ ret = [exc |-> "none", val |-> << <<"c","s","s","/","a",".","c","s","s">>, <<"t","/","c",".","d",".","c","s","s">> >>]
    /\ disk[ <<"/","p","k","g","/","t","/","c",".","d",".","c","s","s">> ] = <<"/","*"," ","c","o","m","p","i","l","e","d"," ","*","/"," ","@","i","m","p","o","r","t"," ","\"","C",":","/","f","2","/","t","/","c",".","d",".","s","c","s","s","\"",";">>

(***************************************************************************)
(* utils.py                                                                *)
(***************************************************************************)
\* \w, for ASCII
IsWordChar(c) ==
    \/ c = "_"
    \/ c \in DOMAIN ToLower
    \/ c \in DOMAIN ToUpper
    \/ c \in { "0","1","2","3","4","5","6","7","8","9" }

\* line 13: variables_name_re.match(key), "^(?P<name>\w+)_variables$"; '$'
\* also matches before a newline that ends the key.  <<>> when there is no
\* match, else <<name>>
ThemeNameOf(key) ==
    LET tail == <<"_","v","a","r","i","a","b","l","e","s">>
        body == IF key # <<>> /\ key[Len(key)] = "\n"
                THEN SubSeq(key, 1, Len(key) - 1) ELSE key
        name == SubSeq(body, 1, Len(body) - Len(tail))
    IN  IF /\ Len(body) > Len(tail)
           /\ EndsWith(body, tail)
           /\ \A i \in 1..Len(name) : IsWordChar(name[i])
        THEN <<name>> ELSE <<>>

\* lines 37-48: get_themes()
RECURSIVE ThemesOf(_)
ThemesOf(dict) ==
    IF dict = <<>> THEN <<>>
    ELSE ThemeNameOf(Head(dict)[1]) \o ThemesOf(Tail(dict))

get_themes == IF settings.has_bulma_settings THEN ThemesOf(settings.BULMA_SETTINGS) ELSE <<>>

\* path.relative_to(simple_bulma_path).as_posix() of a file below it
RelativeToPackage(text) ==
    SubSeq(text, Len(PathStr(simple_bulma_path)) + 2, Len(text))

\* the orders in which a directory may hand out a set of entries
Orders(set) ==
    { order \in [1..Cardinality(set) -> set] :
        \A i, j \in 1..Cardinality(set) : order[i] = order[j] => i = j }

\* mutant: the plain script is preferred to the minified one
JsCandidates_PlainFirst(files, name) ==
    LET dist_folder == Sub(Sub(Sub(simple_bulma_path, <<"e","x","t","e","n","s","i","o","n","s">>), name), <<"d","i","s","t">>)
        plain == { f \in RGlob(files, dist_folder, <<"*",".","j","s">>) : ~EndsWith(f, <<".","m","i","n",".","j","s">>) }
    IN  IF plain # {} THEN plain ELSE RGlob(files, dist_folder, <<"*",".","j","s">>)

\* lines 96-97: the files that next(rglob("*.min.js")) or next(rglob("*.js"))
\* may give for one extension; none when the set is empty
JsCandidates(files, name) ==
    LET dist_folder == Sub(Sub(Sub(simple_bulma_path, <<"e","x","t","e","n","s","i","o","n","s">>), name), <<"d","i","s","t">>)
        minified == RGlob(files, dist_folder, <<"*",".","m","i","n",".","j","s">>)
    IN  IF minified # {} THEN minified ELSE RGlob(files, dist_folder, <<"*",".","j","s">>)

\* lines 85-102: what the loop may yield for the extensions from the k-th of
\* the order on
RECURSIVE JsYields(_, _, _)
JsYields(files, order, k) ==
    IF k > Len(order) THEN { <<>> }
    ELSE LET rest == JsYields(files, order, k + 1)
             candidates == JsCandidates(files, order[k])
         IN  IF is_enabled(order[k]) /\ candidates # {}
             THEN { <<RelativeToPackage(f)>> \o r : f \in candidates, r \in rest }
             ELSE rest

\* mutant: the runner is added whenever bulma-collapsible is enabled
RunnerJs_Always(names) ==
    LET enabled == { n \in names : is_enabled(n) }
    IN  IF <<"b","u","l","m","a","-","c","o","l","l","a","p","s","i","b","l","e">> \in enabled
        THEN << <<"e","x","t","e","n","s","i","o","n","s","/","b","u","l","m","a","-","c","o","l","l","a","p","s","i","b","l","e","-","r","u","n","n","e","r","/","d","i","s","t","/","j","s","/","b","u","l","m","a","-","c","o","l","l","a","p","s","i","b","l","e","-","r","u","n","n","e","r",".","j","s">> >>
        ELSE <<>>

\* lines 105-110: the runner of bulma-collapsible
RunnerJs(names) ==
    LET enabled == { n \in names : is_enabled(n) }
    IN  IF <<"b","u","l","m","a","-","c","o","l","l","a","p","s","i","b","l","e">> \in enabled /\ <<"b","u","l","m","a","-","c","o","l","l","a","p","s","i","b","l","e","-","r","u","n","n","e","r">> \notin enabled
        THEN << <<"e","x","t","e","n","s","i","o","n","s","/","b","u","l","m","a","-","c","o","l","l","a","p","s","i","b","l","e","-","r","u","n","n","e","r","/","d","i","s","t","/","j","s","/","b","u","l","m","a","-","c","o","l","l","a","p","s","i","b","l","e","-","r","u","n","n","e","r",".","j","s">> >>
        ELSE <<>>

\* lines 82-110: get_js_files(): every list it may yield, over the orders of
\* iterdir and of rglob
get_js_files(files) ==
    LET names == IterDir(files, Sub(simple_bulma_path, <<"e","x","t","e","n","s","i","o","n","s">>))
    IN  { y \o RunnerJs(names) :
            y \in UNION { JsYields(files, order, 1) : order \in Orders(names) } }

(***************************************************************************)
(* templatetags/django_simple_bulma.py                                     *)
(***************************************************************************)
\* django.templatetags.static.static(path): the path below STATIC_URL
static(path) == <<"/","s","t","a","t","i","c","/">> \o path

\* mutant: the theme is used whether it is detected or not
UsedTheme_Unchecked(theme) == theme

\* lines 35-40: the theme the stylesheet is built for

UsedTheme(theme) ==
    IF theme # <<>> /\ ~(\E i \in 1..Len(get_themes) : get_themes[i] = theme)
    THEN <<>> ELSE theme

\* lines 36-40: what the call adds to the log
Warning(theme) ==
    IF theme # <<>> /\ ~(\E i \in 1..Len(get_themes) : get_themes[i] = theme)
    THEN << <<"T","h","e","m","e"," ","'">> \o theme \o <<"'"," ","d","o","e","s"," ","n","o","t"," ","m","a","t","c","h"," ","a","n","y"," ","o","f"," ","t","h","e"," ","d","e","t","e","c","t","e","d"," ","t","h","e","m","e","s",":"," ">>
            \o JoinWith(get_themes, <<","," ">>) \o <<"."," ","U","s","i","n","g"," ","d","e","f","a","u","l","t"," ","t","h","e","m","e"," ","i","n","s","t","e","a","d",".">> >>
    ELSE <<>>

\* line 54: one script element
ScriptTag(js_file) ==
    <<"<","s","c","r","i","p","t"," ","d","e","f","e","r"," ","t","y","p","e","=","\"","t","e","x","t","/","j","a","v","a","s","c","r","i","p","t","\""," ","s","r","c","=","\"">> \o static(js_file) \o <<"\"",">","<","/","s","c","r","i","p","t",">">>

\* lines 14-56: bulma(theme, include_js), for the list js_files that
\* get_js_files yields
bulma(theme, include_js, js_files) ==
    LET used == UsedTheme(theme)
        css == static(<<"c","s","s","/">> \o (IF used # <<>> THEN used \o <<"_">> ELSE <<>>) \o <<"b","u","l","m","a",".","c","s","s">>)
        stylesheet_id == IF used # <<>> THEN <<"b","u","l","m","a","-","c","s","s","-">> \o used ELSE <<"b","u","l","m","a","-","c","s","s">>
        html == << <<"<","l","i","n","k"," ","r","e","l","=","\"","p","r","e","l","o","a","d","\""," ","h","r","e","f","=","\"">> \o css \o <<"\""," ","a","s","=","\"","s","t","y","l","e","\"",">">>,
                   <<"<","l","i","n","k"," ","r","e","l","=","\"","s","t","y","l","e","s","h","e","e","t","\""," ","h","r","e","f","=","\"">> \o css \o <<"\""," ","i","d","=","\"">>
                       \o stylesheet_id \o <<"\"",">">> >>
        scripts == IF include_js
                   THEN [i \in 1..Len(js_files) |-> ScriptTag(js_files[i])]
                   ELSE <<>>
    IN  JoinWith(html \o scripts, <<"\n">>)

(***************************************************************************)
(* One call of the template tag                                            *)
(***************************************************************************)
TagThemes == { <<>>, <<"d","a","r","k">>, <<"l","i","g","h","t">>, <<"v","a","r","i","a","b","l","e","s">> }

\* the items a drawn BULMA_SETTINGS is made of
TagItems == {
    << <<"v","a","r","i","a","b","l","e","s">>, PyDict(<<>>) >>,
    << <<"d","a","r","k","_","v","a","r","i","a","b","l","e","s">>, PyDict(<<>>) >>,
    << <<"l","i","g","h","t","_","v","a","r","i","a","b","l","e","s","\n">>, PyDict(<<>>) >>,
    << <<"_","v","a","r","i","a","b","l","e","s">>, PyDict(<<>>) >>,
    << <<"e","x","t","e","n","s","i","o","n","s">>, PyStr(<<"a","l","l">>) >>,
    << <<"e","x","t","e","n","s","i","o","n","s">>, PyList(<< <<"b","u","l","m","a","-","c","o","l","l","a","p","s","i","b","l","e">> >>) >> }

TagSettings ==
    { [has_bulma_settings |-> FALSE] }
    \cup { [has_bulma_settings |-> TRUE, BULMA_SETTINGS |-> d] :
             d \in { x \in SeqsUpTo(TagItems, MaxKeys) : DistinctNames(x) } }

\* the extension folders drawn: none; bulma-collapsible with a minified and
\* a plain script, and bulma-x with a plain one; the same with the runner
CollapsibleFiles ==
    (<<"/","p","k","g","/","e","x","t","e","n","s","i","o","n","s","/","b","u","l","m","a","-","c","o","l","l","a","p","s","i","b","l","e","/","d","i","s","t","/","j","s","/","c",".","m","i","n",".","j","s">> :> <<"c">>)
    @@ (<<"/","p","k","g","/","e","x","t","e","n","s","i","o","n","s","/","b","u","l","m","a","-","c","o","l","l","a","p","s","i","b","l","e","/","d","i","s","t","/","j","s","/","c",".","j","s">> :> <<"c">>)
    @@ (<<"/","p","k","g","/","e","x","t","e","n","s","i","o","n","s","/","b","u","l","m","a","-","x","/","d","i","s","t","/","x",".","j","s">> :> <<"x">>)

RunnerFiles ==
    <<"/","p","k","g","/","e","x","t","e","n","s","i","o","n","s","/","b","u","l","m","a","-","c","o","l","l","a","p","s","i","b","l","e","-","r","u","n","n","e","r","/","d","i","s","t","/","j","s","/","b","u","l","m","a","-","c","o","l","l","a","p","s","i","b","l","e","-","r","u","n","n","e","r",".","j","s">> :> <<"r">>

JsDisks == { <<>>, CollapsibleFiles, CollapsibleFiles @@ RunnerFiles }

InitTag ==
    /\ pc = "call"
    /\ fn = "bulma"
    /\ arg \in [theme : TagThemes, include_js : BOOLEAN]
    /\ ret = Pending
    /\ settings \in TagSettings
    /\ finder = <<>>
    /\ disk \in JsDisks
    /\ log = <<>>
    /\ tables = <<>>
    /\ locals = <<>>

\* the tag; get_js_files is handed the scripts in one of the orders the
\* directories may give
Bulma ==
    /\ pc = "call"
    /\ fn = "bulma"
    /\ \E js_files \in (IF arg.include_js THEN get_js_files(disk) ELSE { <<>> }) :
          ret' = [exc |-> "none", val |-> bulma(arg.theme, arg.include_js, js_files)]
    /\ log' = log \o Warning(arg.theme)
    /\ pc' = "done"
    /\ UNCHANGED <<fn, arg, settings, finder, disk, tables, locals>>

NextTag == Bulma

SpecTag == InitTag /\ [][NextTag]_vars

(***************************************************************************)
(* Properties of the template tag                                          *)
(***************************************************************************)
\* the first two lines of the html are the preload and the stylesheet link
\* of the given stylesheet and id
LinksTo(html, css, stylesheet_id) ==
    LET lines == Split(html, "\n")
    IN  /\ Len(lines) >= 2
        /\ lines[1] = <<"<","l","i","n","k"," ","r","e","l","=","\"","p","r","e","l","o","a","d","\""," ","h","r","e","f","=","\"","/","s","t","a","t","i","c","/">> \o css \o <<"\""," ","a","s","=","\"","s","t","y","l","e","\"",">">>
        /\ lines[2] = <<"<","l","i","n","k"," ","r","e","l","=","\"","s","t","y","l","e","s","h","e","e","t","\""," ","h","r","e","f","=","\"","/","s","t","a","t","i","c","/">> \o css
                      \o <<"\""," ","i","d","=","\"">> \o stylesheet_id \o <<"\"",">">>

\* C19: the bulma template tag references 'css/{theme}_bulma.css' with id
\* 'bulma-css-{theme}' exactly when the requested theme is non-empty and is
\* one of the detected themes; for an empty theme or any theme not detected
\* it references 'css/bulma.css' with id 'bulma-css', and a warning is logged
\* exactly in the not-detected case.
C19_ThemeStylesheet ==
    Returned("bulma") =>
        LET theme == arg.theme
            detected == theme # <<>> /\ \E i \in 1..Len(get_themes) : get_themes[i] = theme
            themed == LinksTo(ret.val, <<"c","s","s","/">> \o theme \o <<"_","b","u","l","m","a",".","c","s","s">>,
                              <<"b","u","l","m","a","-","c","s","s","-">> \o theme)
            plain == LinksTo(ret.val, <<"c","s","s","/","b","u","l","m","a",".","c","s","s">>, <<"b","u","l","m","a","-","c","s","s">>)
        IN  /\ ret.exc = "none"
            /\ themed <=> detected
            /\ plain <=> ~detected
            /\ Len(log) = (IF theme # <<>> /\ ~detected THEN 1 ELSE 0)

\* the tag has been called with the theme 'variables' under settings that
\* have the key 'variables': the default stylesheet is referenced and one
\* warning is logged
C19_Witness ==
    /\ Returned("bulma")
    /\ arg.theme = <<"v","a","r","i","a","b","l","e","s">>
    /\ settings.has_bulma_settings
    /\ DictHas(settings.BULMA_SETTINGS, <<"v","a","r","i","a","b","l","e","s">>)
    /\ DictHas(settings.BULMA_SETTINGS, <<"d","a","r","k","_","v","a","r","i","a","b","l","e","s">>)
    /\ LinksTo(ret.val, <<"c","s","s","/","b","u","l","m","a",".","c","s","s">>, <<"b","u","l","m","a","-","c","s","s">>)
    /\ log = << <<"T","h","e","m","e"," ","'","v","a","r","i","a","b","l","e","s","'"," ","d","o","e","s"," ","n","o","t"," ","m","a","t","c","h"," ","a","n","y"," ","o","f"," ","t","h","e"," ","d","e","t","e","c","t","e","d"," ","t","h","e","m","e","s",":"," ","d","a","r","k","."," ","U","s","i","n","g"," ","d","e","f","a","u","l","t"," ","t","h","e","m","e"," ","i","n","s","t","e","a","d",".">> >>

(***************************************************************************)
(* utils.py: get_sass_files                                                *)
(***************************************************************************)
\* mutant: the plain stylesheets of dist are looked for before the minified
sass_files_searches_CssFirst == <<
    << <<"s","r","c","/","s","a","s","s">>, <<"_","a","l","l",".","s","a","s","s">> >>,
    << <<"s","r","c","/","s","a","s","s">>, <<"i","n","d","e","x",".","s","a","s","s">> >>,
    << <<"s","r","c","/","s","a","s","s">>, <<"*",".","s","a","s","s">> >>,
    << <<"s","r","c">>, <<"*",".","s","[","a","c","]","s","s">> >>,
    << <<"d","i","s","t">>, <<"*",".","s","a","s","s">> >>,
    << <<"d","i","s","t">>, <<"*",".","c","s","s">> >>,
    << <<"d","i","s","t">>, <<"*",".","m","i","n",".","c","s","s">> >>,
    << <<>>, <<"*",".","s","[","a","c","]","s","s">> >> >>

\* lines 52-61: (relative path, glob pattern) pairs, in the order tried
sass_files_searches == <<
    << <<"s","r","c","/","s","a","s","s">>, <<"_","a","l","l",".","s","a","s","s">> >>,
    << <<"s","r","c","/","s","a","s","s">>, <<"i","n","d","e","x",".","s","a","s","s">> >>,
    << <<"s","r","c","/","s","a","s","s">>, <<"*",".","s","a","s","s">> >>,
    << <<"s","r","c">>, <<"*",".","s","[","a","c","]","s","s">> >>,
    << <<"d","i","s","t">>, <<"*",".","s","a","s","s">> >>,
    << <<"d","i","s","t">>, <<"*",".","m","i","n",".","c","s","s">> >>,
    << <<"d","i","s","t">>, <<"*",".","c","s","s">> >>,
    << <<>>, <<"*",".","s","[","a","c","]","s","s">> >> >>

\* path.with_suffix(""), as str: the suffix pathlib sees is cut off
WithoutSuffix(text) ==
    LET at == SuffixAt(PathName(Path(text)))
        name_starts == Len(text) - Len(PathName(Path(text)))
    IN  IF at = 0 THEN text ELSE SubSeq(text, 1, name_starts + at - 1)

\* lines 118-122: the path returned for a file found with the given pattern
SassSource(found, glob) ==
    RelativeToPackage(IF EndsWith(glob, <<".","c","s","s">>) THEN WithoutSuffix(found) ELSE found)

\* lines 115-125: the search from the k-th pair on: every list it may
\* return, over the orders of rglob
RECURSIVE SassSearchFrom(_, _, _, _)
SassSearchFrom(files, ext, searches, k) ==
    IF k > Len(searches) THEN { <<>> }
    ELSE LET found == RGlob(files, Sub(ext, searches[k][1]), searches[k][2])
         IN  IF found # {}
             THEN { [i \in 1..Len(order) |-> SassSource(order[i], searches[k][2])] :
                      order \in Orders(found) }
             ELSE SassSearchFrom(files, ext, searches, k + 1)

\* lines 113-128: get_sass_files(ext)
get_sass_files(files, ext) == SassSearchFrom(files, ext, sass_files_searches, 1)

(***************************************************************************)
(* One call of get_sass_files or get_js_files                              *)
(***************************************************************************)
\* the folder of an extension
ExtensionPath(name) == Sub(Sub(simple_bulma_path, <<"e","x","t","e","n","s","i","o","n","s">>), name)

\* the files an extension folder is drawn from, relative to the folder
SassCandidates == {
    <<"s","r","c","/","s","a","s","s","/","_","a","l","l",".","s","a","s","s">>,
    <<"s","r","c","/","s","a","s","s","/","i","n","d","e","x",".","s","a","s","s">>,
    <<"s","r","c","/","s","a","s","s","/","a",".","s","a","s","s">>,
    <<"s","r","c","/","s","a","s","s","/","d","e","e","p","/","f",".","s","a","s","s">>,
    <<"s","r","c","/","b",".","s","c","s","s">>,
    <<"d","i","s","t","/","c",".","s","a","s","s">>,
    <<"d","i","s","t","/","d",".","m","i","n",".","c","s","s">>,
    <<"d","i","s","t","/","d",".","c","s","s">>,
    <<"d","i","s","t","/",".","c","s","s">>,
    <<"e",".","s","c","s","s">>,
    <<"R","E","A","D","M","E",".","m","d">> }

\* the disks drawn: the extension bulma-x with up to MaxFiles of these files
SassDisks ==
    { [f \in { PathStr(Sub(ExtensionPath(<<"b","u","l","m","a","-","x">>), c)) : c \in chosen } |-> <<"s">>] :
        chosen \in { c \in SUBSET SassCandidates : Cardinality(c) <= MaxFiles } }

\* the settings drawn for get_js_files
JsSettings ==
    { [has_bulma_settings |-> FALSE] }
    \cup { [has_bulma_settings |-> TRUE, BULMA_SETTINGS |-> << << <<"e","x","t","e","n","s","i","o","n","s">>, e >> >>] :
             e \in { PyStr(<<"a","l","l">>),
                     PyList(<<>>),
                     PyList(<< <<"b","u","l","m","a","-","c","o","l","l","a","p","s","i","b","l","e">> >>),
                     PyList(<< <<"b","u","l","m","a","-","x">>, <<"b","u","l","m","a","-","c","o","l","l","a","p","s","i","b","l","e","-","r","u","n","n","e","r">> >>),
                     PyList(<< <<"b","u","l","m","a","-","y">> >>),
                     PyList(<< <<"b","u","l","m","a","-","c","o","l","l","a","p","s","i","b","l","e">>, <<"b","u","l","m","a","-","c","o","l","l","a","p","s","i","b","l","e","-","r","u","n","n","e","r">> >>) } }

InitGetSassFiles ==
    /\ fn = "get_sass_files"
    /\ arg \in { <<"b","u","l","m","a","-","x">>, <<"b","u","l","m","a","-","y">> }
    /\ settings = [has_bulma_settings |-> FALSE]
    /\ disk \in SassDisks

\* the extension folders get_js_files is run on: any of bulma-collapsible
\* (a minified and a plain script), bulma-x (a plain script), bulma-y (no
\* script), and the runner, with its script or without any
CollapsibleFolder ==
    (<<"/","p","k","g","/","e","x","t","e","n","s","i","o","n","s","/","b","u","l","m","a","-","c","o","l","l","a","p","s","i","b","l","e","/","d","i","s","t","/","j","s","/","c",".","m","i","n",".","j","s">> :> <<"c">>)
    @@ (<<"/","p","k","g","/","e","x","t","e","n","s","i","o","n","s","/","b","u","l","m","a","-","c","o","l","l","a","p","s","i","b","l","e","/","d","i","s","t","/","j","s","/","c",".","j","s">> :> <<"c">>)

XFolder == <<"/","p","k","g","/","e","x","t","e","n","s","i","o","n","s","/","b","u","l","m","a","-","x","/","d","i","s","t","/","x",".","j","s">> :> <<"x">>

YFolder == <<"/","p","k","g","/","e","x","t","e","n","s","i","o","n","s","/","b","u","l","m","a","-","y","/","d","i","s","t","/","y",".","c","s","s">> :> <<"y">>

RunnerWithoutScript == <<"/","p","k","g","/","e","x","t","e","n","s","i","o","n","s","/","b","u","l","m","a","-","c","o","l","l","a","p","s","i","b","l","e","-","r","u","n","n","e","r","/","R","E","A","D","M","E",".","m","d">> :> <<"r">>

ExtensionDisks ==
    { (IF c THEN CollapsibleFolder ELSE <<>>) @@ (IF x THEN XFolder ELSE <<>>)
      @@ (IF y THEN YFolder ELSE <<>>) @@ r :
        c \in BOOLEAN, x \in BOOLEAN, y \in BOOLEAN,
        r \in { <<>>, RunnerFiles, RunnerWithoutScript } }

InitGetJsFiles ==
    /\ fn = "get_js_files"
    /\ arg = <<>>
    /\ settings \in JsSettings
    /\ disk \in ExtensionDisks

InitUtils ==
    /\ pc = "call"
    /\ ret = Pending
    /\ finder = <<>>
    /\ log = <<>>
    /\ tables = <<>>
    /\ locals = <<>>
    /\ InitGetSassFiles \/ InitGetJsFiles

\* get_sass_files(ext) for the folder of the extension named by arg; the
\* list comes in one of the orders rglob may give
GetSassFiles ==
    /\ pc = "call"
    /\ fn = "get_sass_files"
    /\ \E src_files \in get_sass_files(disk, ExtensionPath(arg)) :
          ret' = [exc |-> "none", val |-> src_files]
    /\ pc' = "done"
    /\ UNCHANGED <<fn, arg, surroundings>>

\* list(get_js_files())
GetJsFiles ==
    /\ pc = "call"
    /\ fn = "get_js_files"
    /\ \E js_files \in get_js_files(disk) :
          ret' = [exc |-> "none", val |-> js_files]
    /\ pc' = "done"
    /\ UNCHANGED <<fn, arg, surroundings>>

NextUtils == GetSassFiles \/ GetJsFiles

SpecUtils == InitUtils /\ [][NextUtils]_vars

(***************************************************************************)
(* Properties of get_sass_files                                            *)
(***************************************************************************)
\* the order of the searches as the specification lists it
C20_Order == <<
    << <<"s","r","c","/","s","a","s","s">>, <<"_","a","l","l",".","s","a","s","s">> >>,
    << <<"s","r","c","/","s","a","s","s">>, <<"i","n","d","e","x",".","s","a","s","s">> >>,
    << <<"s","r","c","/","s","a","s","s">>, <<"*",".","s","a","s","s">> >>,
    << <<"s","r","c">>, <<"*",".","s","[","a","c","]","s","s">> >>,
    << <<"d","i","s","t">>, <<"*",".","s","a","s","s">> >>,
    << <<"d","i","s","t">>, <<"*",".","m","i","n",".","c","s","s">> >>,
    << <<"d","i","s","t">>, <<"*",".","c","s","s">> >>,
    << <<>>, <<"*",".","s","[","a","c","]","s","s">> >> >>

\* what the k-th search of the list finds under the extension folder
C20_Hits(k) == RGlob(disk, Sub(ExtensionPath(arg), C20_Order[k][1]), C20_Order[k][2])

\* the searches that find something
C20_Matching == { k \in 1..Len(C20_Order) : C20_Hits(k) # {} }

\* the first search that finds something
C20_First == CHOOSE k \in C20_Matching : \A other \in C20_Matching : k <= other

\* a path without its last four characters
C20_CutCss(text) == SubSeq(text, 1, Len(text) - Len(<<".","c","s","s">>))

\* the list returned holds exactly the expected paths, one for each path
\* the first matching search finds, and is empty when no search matches
C20_Returns(expected) ==
    IF C20_Matching = {}
    THEN ret.val = <<>>
    ELSE /\ Len(ret.val) = Cardinality(C20_Hits(C20_First))
         /\ { ret.val[i] : i \in 1..Len(ret.val) }
              = { RelativeToPackage(path) : path \in expected }

ManyHashes(s) ==
    /\ Len(s) >= 2
    /\ s[1] = "#"
    /\ s[2] = "#"
    /\ Len(LStripHash(s)) \in {ShortHexLen, HexLen}
    /\ IsHexString(LStripHash(s))

\* C25: hex_to_hsl strips a single leading '#' only: a string of two or
\* more '#' followed by 3 or 6 hex digits is not taken for a colour and
\* ends with ValueError.
C25_OneHashOnly ==
    (Returned("hex_to_hsl") /\ ManyHashes(arg)) => ret.exc = "ValueError"

(***************************************************************************)
(* Properties of convert_sass_variables_to_css: functional notation        *)
(***************************************************************************)
\* the value is colour-like through the function pattern and through no
\* other rule
FunctionalOnly(value) ==
    /\ MatchesFunctionPattern(value)
    /\ ~MatchesHexPattern(value)
    /\ Lower(value) \notin ColorNames

\* C24: an item whose value is colour-like only through the function
\* pattern (hsl(, hsla(, rgb(, rgba() is rejected by hex_to_hsl and gets
\* exactly one declaration, '  {base}: {value};' with the value as given,
\* and no -h, -s or -l declaration.
C24_FunctionalDirect ==
    Returned("convert_sass_variables_to_css") =>
        \A i \in 1..Len(arg) :
            FunctionalOnly(arg[i][2]) =>
                /\ hex_to_hsl(arg[i][2]).exc = "ValueError"
                /\ ret.exc = "none"
                /\ LET base == Indented(BaseName(arg[i][1]))
                       decl == DeclLines
                   IN  /\ { j \in 1..Len(decl) : StartsWith(decl[j], base \o <<":">>) }
                            = { LinesDueUpTo(arg, i) }
                       /\ LinesDueUpTo(arg, i) = LinesDueUpTo(arg, i - 1) + 1
                       /\ decl[LinesDueUpTo(arg, i)]
                            = base \o <<":"," ">> \o arg[i][2] \o <<";">>
                       /\ \A j \in 1..Len(decl), c \in {"h", "s", "l"} :
                            ~StartsWith(decl[j], base \o <<"-", c, ":">>)

\* a function value of six characters, the length of a hex colour, has been
\* written as it is, after a colour that was expanded
C24_Witness ==
    /\ Returned("convert_sass_variables_to_css")
    /\ Len(arg) = 2
    /\ Converts(arg[1][2])
    /\ arg[2] = << <<"p","r","i","m","a","r","y">>, <<"h","s","l","(","1",")">> >>
    /\ DeclLines[4] = <<" "," ","-","-","b","u","l","m","a","-","p","r","i","m","a","r","y",":"," ","h","s","l","(","1",")",";">>

(***************************************************************************)
(* get_variable_mapping: the dicts it returns                              *)
(***************************************************************************)
\* mutant: one dict is built once and returned by every call
get_variable_mapping_Shared(heap) ==
    IF heap = <<>> THEN [heap |-> <<variable_mapping>>, at |-> 1]
    ELSE [heap |-> heap, at |-> 1]

\* lines 125-187: get_variable_mapping(): the dict literal builds a new dict
\* on every call; heap holds the dicts there are, at is the one returned
get_variable_mapping(heap) ==
    [heap |-> Append(heap, variable_mapping), at |-> Len(heap) + 1]

\* what a caller may do to a dict it was given: table[key] = value for a
\* key it has and for one it has not, del table[key]
SetItem(table, key, value) == { p \in table : p[1] # key } \cup { <<key, value>> }

DelItem(table, key) == { p \in table : p[1] # key }

Mutations(table) ==
    { SetItem(table, <<"p","r","i","m","a","r","y">>, <<"-","-","m","i","n","e">>),
      SetItem(table, <<"c","u","s","t","o","m","-","v","a","r">>, <<"-","-","m","i","n","e">>),
      DelItem(table, <<"p","r","i","m","a","r","y">>) }

\* the mappings converted while dicts are kept: no variable, or one with a
\* colour or a size for its value
FewMappings ==
    { v \in Mappings : Len(v) = 0 \/ (Len(v) = 1 /\ v[1][2] \in { <<"#","f","0","0">>, <<"5","p","x">> }) }

InitMapping ==
    /\ pc = "call"
    /\ fn = "get_variable_mapping"
    /\ arg = <<>>
    /\ ret = Pending
    /\ Bare

\* a caller calls get_variable_mapping() and keeps the dict; ret is the place
\* of the dict among the dicts kept
GetVariableMapping ==
    /\ Len(tables) < MaxTables
    /\ LET got == get_variable_mapping(tables)
       IN  /\ tables' = got.heap
           /\ ret' = [exc |-> "none", val |-> got.at]
    /\ fn' = "get_variable_mapping"
    /\ arg' = <<>>
    /\ pc' = "done"
    /\ UNCHANGED <<settings, finder, disk, log, locals>>

\* the caller changes a dict it keeps, before its next call
MutateTable ==
    /\ \E at \in 1..Len(tables) : \E changed \in Mutations(tables[at]) :
          /\ changed # tables[at]
          /\ tables' = [tables EXCEPT ![at] = changed]
    /\ pc' = "call"
    /\ UNCHANGED <<fn, arg, ret, settings, finder, disk, log, locals>>

\* convert_sass_variables_to_css(variables) while dicts are kept: line 203
\* calls get_variable_mapping(); the dict it gets is local to the call and is
\* gone when the call returns, unless it is one the caller keeps
ConvertBesideTables ==
    /\ \E variables \in FewMappings :
          /\ arg' = variables
          /\ LET got == get_variable_mapping(tables)
             IN  /\ ret' = ConvertWith(got.heap[got.at], variables)
                 /\ tables' = SubSeq(got.heap, 1, Len(tables))
    /\ fn' = "convert_sass_variables_to_css"
    /\ pc' = "done"
    /\ UNCHANGED <<settings, finder, disk, log, locals>>

NextMapping == GetVariableMapping \/ MutateTable \/ ConvertBesideTables

SpecMapping == InitMapping /\ [][NextMapping]_vars

(***************************************************************************)
(* Properties of get_variable_mapping                                      *)
(***************************************************************************)
\* C30: every entry of the table maps a name to '--bulma-' followed by the
\* name; convert_sass_variables_to_css therefore returns, for mapped and
\* unmapped names alike, what it would return with an empty table, where
\* every base name is '--bulma-{name}'; and each call of
\* get_variable_mapping returns a dict that holds the table, whatever the
\* caller has done to the dicts returned before.
C30_TableIsPrefix ==
    /\ \A p \in variable_mapping : p[2] = <<"-","-","b","u","l","m","a","-">> \o p[1]
    /\ Returned("convert_sass_variables_to_css") => ret = ConvertWith({}, arg)
    /\ Returned("get_variable_mapping") =>
          /\ ret.val = Len(tables)
          /\ tables[ret.val] = variable_mapping

\* a call of get_variable_mapping has just returned the table while the dict
\* of an earlier call, changed by the caller, is still kept
C30_Witness ==
    /\ Returned("get_variable_mapping")
    /\ ret.val = 2
    /\ tables[1] = SetItem(variable_mapping, <<"p","r","i","m","a","r","y">>, <<"-","-","m","i","n","e">>)
    /\ tables[2] = variable_mapping

(***************************************************************************)
(* Properties of get_js_files                                              *)
(***************************************************************************)
\* the names of the extensions the properties speak of: the folders found
\* and the names drawn
ExtensionNames ==
    IterDir(disk, Sub(simple_bulma_path, <<"e","x","t","e","n","s","i","o","n","s">>))
    \cup { <<"b","u","l","m","a","-","c","o","l","l","a","p","s","i","b","l","e">>, <<"b","u","l","m","a","-","c","o","l","l","a","p","s","i","b","l","e","-","r","u","n","n","e","r">>, <<"b","u","l","m","a","-","x">>, <<"b","u","l","m","a","-","y">> }

\* the places of the yielded list that hold a file of the extension
YieldedFor(name) ==
    { i \in 1..Len(ret.val) : StartsWith(ret.val[i], <<"e","x","t","e","n","s","i","o","n","s","/">> \o name \o <<"/">>) }

\* the dist folder of the extension holds a file whose name ends as given
DistHolds(name, ending) ==
    \E p \in DOMAIN disk :
        /\ StartsWith(p, <<"/","p","k","g","/","e","x","t","e","n","s","i","o","n","s","/">> \o name \o <<"/","d","i","s","t","/">>)
        /\ EndsWith(p, ending)

\* the extension is enabled and its folder is found by iterdir
EnabledFolder(name) ==
    /\ is_enabled(name)
    /\ name \in IterDir(disk, Sub(simple_bulma_path, <<"e","x","t","e","n","s","i","o","n","s">>))

RunnerPath == <<"e","x","t","e","n","s","i","o","n","s","/","b","u","l","m","a","-","c","o","l","l","a","p","s","i","b","l","e","-","r","u","n","n","e","r","/","d","i","s","t","/","j","s","/","b","u","l","m","a","-","c","o","l","l","a","p","s","i","b","l","e","-","r","u","n","n","e","r",".","j","s">>

\* what C23 says of one extension, but for the files of extensions that are
\* not enabled
C23_OnePerEnabled(name) ==
    /\ Cardinality(YieldedFor(name)) <= 1
    /\ (is_enabled(name) /\ DistHolds(name, <<".","m","i","n",".","j","s">>)) =>
          \E i \in YieldedFor(name) : EndsWith(ret.val[i], <<".","m","i","n",".","j","s">>)
    /\ is_enabled(name) =>
          \A i \in YieldedFor(name) :
              /\ EndsWith(ret.val[i], <<".","j","s">>)
              /\ ~EndsWith(ret.val[i], <<".","m","i","n",".","j","s">>) => ~DistHolds(name, <<".","m","i","n",".","j","s">>)

\* C23 as stated: get_js_files yields at most one JS file per enabled
\* extension, '*.min.js' whenever the dist folder holds one and a plain
\* '*.js' only otherwise, and no file for any extension that is not enabled
C23_NoneForDisabled ==
    Returned("get_js_files") =>
        \A name \in ExtensionNames :
            /\ C23_OnePerEnabled(name)
            /\ ~is_enabled(name) => YieldedFor(name) = {}

\* C23: get_js_files yields at most one JS file per enabled extension,
\* choosing a '*.min.js' file whenever the extension's dist folder contains
\* one and a plain '*.js' file only otherwise; for an extension that is not
\* enabled it yields no file, except the runner script that is appended for an
\* enabled bulma-collapsible.
C23_MinifiedFirst ==
    Returned("get_js_files") =>
        \A name \in ExtensionNames :
            /\ C23_OnePerEnabled(name)
            /\ ~is_enabled(name) =>
                  \/ YieldedFor(name) = {}
                  \/ /\ name = <<"b","u","l","m","a","-","c","o","l","l","a","p","s","i","b","l","e","-","r","u","n","n","e","r">>
                     /\ EnabledFolder(<<"b","u","l","m","a","-","c","o","l","l","a","p","s","i","b","l","e">>)
                     /\ YieldedFor(name) = { Len(ret.val) }
                     /\ ret.val[Len(ret.val)] = RunnerPath

\* bulma-collapsible, bulma-x and bulma-y are enabled and found: the minified
\* script of the first and the plain script of the second are yielded,
\* nothing for the third
C23_Witness ==
    /\ Returned("get_js_files")
    /\ is_enabled(<<"b","u","l","m","a","-","y">>)
    /\ ~DistHolds(<<"b","u","l","m","a","-","x">>, <<".","m","i","n",".","j","s">>)
    /\ DistHolds(<<"b","u","l","m","a","-","y">>, <<".","c","s","s">>)
    /\ DistHolds(<<"b","u","l","m","a","-","c","o","l","l","a","p","s","i","b","l","e","-","r","u","n","n","e","r">>, <<".","j","s">>)
    /\ ret.val = << <<"e","x","t","e","n","s","i","o","n","s","/","b","u","l","m","a","-","x","/","d","i","s","t","/","x",".","j","s">>,
                    <<"e","x","t","e","n","s","i","o","n","s","/","b","u","l","m","a","-","c","o","l","l","a","p","s","i","b","l","e","/","d","i","s","t","/","j","s","/","c",".","m","i","n",".","j","s">>,
                    <<"e","x","t","e","n","s","i","o","n","s","/","b","u","l","m","a","-","c","o","l","l","a","p","s","i","b","l","e","-","r","u","n","n","e","r","/","d","i","s","t","/","j","s","/","b","u","l","m","a","-","c","o","l","l","a","p","s","i","b","l","e","-","r","u","n","n","e","r",".","j","s">> >>

\* C28 as stated: the runner script is yielded exactly once whenever
\* bulma-collapsible is enabled, after all extension files when the runner is
\* not enabled; when bulma-collapsible is not enabled no runner file is added
\* on its behalf
C28_OnceWheneverEnabled ==
    Returned("get_js_files") =>
        LET runner == YieldedFor(<<"b","u","l","m","a","-","c","o","l","l","a","p","s","i","b","l","e","-","r","u","n","n","e","r">>)
        IN  /\ is_enabled(<<"b","u","l","m","a","-","c","o","l","l","a","p","s","i","b","l","e">>) => Cardinality(runner) = 1
            /\ (is_enabled(<<"b","u","l","m","a","-","c","o","l","l","a","p","s","i","b","l","e">>) /\ ~is_enabled(<<"b","u","l","m","a","-","c","o","l","l","a","p","s","i","b","l","e","-","r","u","n","n","e","r">>)) =>
                  /\ runner = { Len(ret.val) }
                  /\ ret.val[Len(ret.val)] = RunnerPath
            /\ (~is_enabled(<<"b","u","l","m","a","-","c","o","l","l","a","p","s","i","b","l","e">>) /\ ~is_enabled(<<"b","u","l","m","a","-","c","o","l","l","a","p","s","i","b","l","e","-","r","u","n","n","e","r">>)) =>
                  runner = {}

\* C28: get_js_files appends the runner script, once and after all extension
\* files, exactly when bulma-collapsible is enabled and its folder is found
\* while the runner is not both enabled and found; in every other case the
\* only runner file is the one that the loop yields for an enabled runner
\* folder that holds a script, so the runner is never yielded twice and none
\* is added when bulma-collapsible is not enabled.
C28_RunnerOnce ==
    Returned("get_js_files") =>
        LET runner == YieldedFor(<<"b","u","l","m","a","-","c","o","l","l","a","p","s","i","b","l","e","-","r","u","n","n","e","r">>)
            appended == /\ EnabledFolder(<<"b","u","l","m","a","-","c","o","l","l","a","p","s","i","b","l","e">>)
                        /\ ~EnabledFolder(<<"b","u","l","m","a","-","c","o","l","l","a","p","s","i","b","l","e","-","r","u","n","n","e","r">>)
            looped == /\ EnabledFolder(<<"b","u","l","m","a","-","c","o","l","l","a","p","s","i","b","l","e","-","r","u","n","n","e","r">>)
                      /\ DistHolds(<<"b","u","l","m","a","-","c","o","l","l","a","p","s","i","b","l","e","-","r","u","n","n","e","r">>, <<".","j","s">>)
        IN  /\ Cardinality(runner) = (IF appended \/ looped THEN 1 ELSE 0)
            /\ appended => /\ runner = { Len(ret.val) }
                           /\ ret.val[Len(ret.val)] = RunnerPath
            /\ looped => \A i \in runner : <<"/","p","k","g","/">> \o ret.val[i] \in DOMAIN disk

\* every extension is enabled and both bulma-collapsible and the runner are
\* found: the runner is yielded once, by the loop, and before the script of
\* bulma-collapsible
C28_Witness ==
    /\ Returned("get_js_files")
    /\ is_enabled(<<"b","u","l","m","a","-","c","o","l","l","a","p","s","i","b","l","e">>)
    /\ is_enabled(<<"b","u","l","m","a","-","c","o","l","l","a","p","s","i","b","l","e","-","r","u","n","n","e","r">>)
    /\ ret.val = << RunnerPath, <<"e","x","t","e","n","s","i","o","n","s","/","b","u","l","m","a","-","c","o","l","l","a","p","s","i","b","l","e","/","d","i","s","t","/","j","s","/","c",".","m","i","n",".","j","s">> >>

(***************************************************************************)
(* Properties of the theme files                                           *)
(***************************************************************************)
\* the places where sub occurs in text
Occurrences(text, sub) ==
    { i \in 1..(Len(text) - Len(sub) + 1) : SubSeq(text, i, i + Len(sub) - 1) = sub }

\* the value of the declaration whose property and colon end before place i:
\* the text up to the next ';' or '}', without the spaces before it
ValueAt(text, i) ==
    LET ends == { j \in i..Len(text) : text[j] \in {";", "}"} } \cup { Len(text) + 1 }
        last == (CHOOSE j \in ends : \A e \in ends : j <= e) - 1
        starts == { j \in i..last : text[j] # " " } \cup { last + 1 }
        first == CHOOSE j \in starts : \A e \in starts : j <= e
    IN  SubSeq(text, first, last)

\* the values that text declares for the custom property, by place
Declared(text, property) ==
    { <<i, ValueAt(text, i + Len(property) + 1)>> : i \in Occurrences(text, property \o <<":">>) }

\* the value that wins when the last declaration of the property wins; none
\* when text does not declare it
FinalValue(text, property) ==
    LET declared == Declared(text, property)
    IN  { d[2] : d \in { x \in declared : \A y \in declared : y[1] <= x[1] } }

\* the part of a theme file before the pre-compiled stylesheet
UserBlock(file, base_css) ==
    LET at == Occurrences(file, base_css)
    IN  IF at = {} THEN file
        ELSE SubSeq(file, 1, (CHOOSE i \in at : \A j \in at : i <= j) - 1)

\* the value of the key in a dict given as its items; none when it has none
ValueOf(items, key) == { items[j][2] : j \in { k \in 1..Len(items) : items[k][1] = key } }

\* the items of settings.BULMA_SETTINGS['{theme}_variables'], when there are
ThemeOverrides(theme) ==
    IF /\ theme # <<>>
       /\ settings.has_bulma_settings
       /\ DictHas(settings.BULMA_SETTINGS, theme \o <<"_","v","a","r","i","a","b","l","e","s">>)
    THEN DictGet(settings.BULMA_SETTINGS, theme \o <<"_","v","a","r","i","a","b","l","e","s">>).value
    ELSE <<>>

\* the variables a theme is to use: the defaults, each with the theme's value
\* when the theme has one for its key, then the theme's other variables
ThemeItems(defaults, theme) ==
    LET overrides == ThemeOverrides(theme)
        Kept(item) == ValueOf(defaults, item[1]) = {}
    IN  [j \in 1..Len(defaults) |->
            IF ValueOf(overrides, defaults[j][1]) = {} THEN defaults[j]
            ELSE << defaults[j][1], CHOOSE v \in ValueOf(overrides, defaults[j][1]) : TRUE >>]
        \o SelectSeq(overrides, Kept)

\* the file of the theme has, before the pre-compiled stylesheet, the block
\* of the variables the theme is to use and nothing else
C26_FileOf(file, base_css, defaults, theme) ==
    LET block == convert_sass_variables_to_css(ThemeItems(defaults, theme)).val
    IN  UserBlock(file, base_css) = IF block = <<>> THEN <<>> ELSE block \o <<"\n">>

\* C26: in _get_bulma_1_css the variables used for each theme are the default
\* 'variables' overridden key-by-key by that theme's '{theme}_variables';
\* processing any sequence of themes leaves self.variables unchanged, the
\* default theme's file uses only the default variables, and one theme's
\* overrides never appear in another theme's file.
C26_ThemeVariables ==
    [][ (/\ pc = "call"
         /\ fn = "_get_bulma_1_css"
         /\ pc' = "done")
        => (/\ finder' = finder
            /\ ret'.exc = "none" =>
                  \A i \in 1..Len(ret'.val) :
                      C26_FileOf(disk'[<<"/","p","k","g","/">> \o ret'.val[i]], disk[PathStr(precompiled_css)],
                                 finder.variables, (<< <<>> >> \o arg.themes)[i])) ]_vars

\* the themes 'dark' and 'light' have been processed in this order with the
\* default primary '#f00', dark's primary '#000' and light's link '#00f': the
\* default file has the default primary, dark's file its own primary and no
\* link, light's file the default primary and its link
C26_Witness ==
    /\ Returned("_get_bulma_1_css")
    /\ ret.exc = "none"
    /\ arg.themes = << <<"d","a","r","k">>, <<"l","i","g","h","t">> >>
    /\ finder.variables = << << <<"p","r","i","m","a","r","y">>, <<"#","f","0","0">> >> >>
    /\ ThemeOverrides(<<"d","a","r","k">>) = << << <<"p","r","i","m","a","r","y">>, <<"#","0","0","0">> >> >>
    /\ ThemeOverrides(<<"l","i","g","h","t">>) = << << <<"l","i","n","k">>, <<"#","0","0","f">> >> >>
    /\ FinalValue(UserBlock(disk[<<"/","p","k","g","/","c","s","s","/","b","u","l","m","a",".","c","s","s">>], <<"b","{","}">>), <<"-","-","b","u","l","m","a","-","p","r","i","m","a","r","y","-","l">>) = { <<"5","0","%">> }
    /\ FinalValue(UserBlock(disk[<<"/","p","k","g","/","c","s","s","/","b","u","l","m","a",".","c","s","s">>], <<"b","{","}">>), <<"-","-","b","u","l","m","a","-","l","i","n","k","-","l">>) = {}
    /\ FinalValue(UserBlock(disk[<<"/","p","k","g","/","c","s","s","/","d","a","r","k","_","b","u","l","m","a",".","c","s","s">>], <<"b","{","}">>), <<"-","-","b","u","l","m","a","-","p","r","i","m","a","r","y","-","l">>) = { <<"0","%">> }
    /\ FinalValue(UserBlock(disk[<<"/","p","k","g","/","c","s","s","/","d","a","r","k","_","b","u","l","m","a",".","c","s","s">>], <<"b","{","}">>), <<"-","-","b","u","l","m","a","-","l","i","n","k","-","l">>) = {}
    /\ FinalValue(UserBlock(disk[<<"/","p","k","g","/","c","s","s","/","l","i","g","h","t","_","b","u","l","m","a",".","c","s","s">>], <<"b","{","}">>), <<"-","-","b","u","l","m","a","-","p","r","i","m","a","r","y","-","l">>) = { <<"5","0","%">> }
    /\ FinalValue(UserBlock(disk[<<"/","p","k","g","/","c","s","s","/","l","i","g","h","t","_","b","u","l","m","a",".","c","s","s">>], <<"b","{","}">>), <<"-","-","b","u","l","m","a","-","l","i","n","k","-","l">>) = { <<"5","0","%">> }

\* the custom properties the drawn variables may set
UserProperties ==
    { <<"-","-","b","u","l","m","a","-">> \o name \o part :
        name \in { <<"p","r","i","m","a","r","y">>, <<"l","i","n","k">> }, part \in { <<"-","h">>, <<"-","s">>, <<"-","l">> } }

\* the part of a theme file after the pre-compiled stylesheet
AfterBase(file, base_css) ==
    LET at == Occurrences(file, base_css)
    IN  SubSeq(file, (CHOOSE i \in at : \A j \in at : i <= j) + Len(base_css), Len(file))

\* C27: in every theme file written by _get_bulma_1_css the user's
\* CSS-variable block acts as an override of the pre-compiled Bulma CSS: when
\* the last declaration of a custom property wins, every custom property set
\* by the user's variables has the user's value as its final value even when
\* the base CSS declares the same property; extension CSS comes after the base
\* CSS and the base CSS text is included unmodified.
C27_UserValueWins ==
    (Returned("_get_bulma_1_css") /\ ret.exc = "none") =>
        \A i \in 1..Len(ret.val) :
            LET file == disk[<<"/","p","k","g","/">> \o ret.val[i]]
                base_css == disk[PathStr(precompiled_css)]
                extension_css == IF arg.has_extensions THEN get_extension_css(disk) ELSE <<>>
            IN  /\ Occurrences(file, base_css) # {}
                /\ AfterBase(file, base_css)
                     = IF extension_css # <<>> THEN <<"\n">> \o extension_css ELSE <<>>
                /\ \A property \in UserProperties :
                      FinalValue(UserBlock(file, base_css), property) # {} =>
                          FinalValue(file, property)
                              = FinalValue(UserBlock(file, base_css), property)

(***************************************************************************)
(* SimpleBulmaFinder: _get_bulma_css, the SASS fallback and list           *)
(***************************************************************************)
\* line 64: the import lines of the files found for one extension
RECURSIVE ImportLines(_)
ImportLines(src_files) ==
    IF src_files = <<>> THEN <<>>
    ELSE <<"@","i","m","p","o","r","t"," ","'">> \o Head(src_files) \o <<"'",";","\n">> \o ImportLines(Tail(src_files))

\* lines 55-66: _get_extension_imports(): every string it may return for the
\* extensions from the k-th of the sorted names on, over the orders of rglob
RECURSIVE ExtensionImportsFrom(_, _, _)
ExtensionImportsFrom(files, names, k) ==
    IF k > Len(names) THEN { <<>> }
    ELSE IF ~is_enabled(names[k]) THEN ExtensionImportsFrom(files, names, k + 1)
    ELSE { ImportLines(src_files) \o rest :
             src_files \in get_sass_files(files, ExtensionPath(names[k])),
             rest \in ExtensionImportsFrom(files, names, k + 1) }

get_extension_imports(files) ==
    ExtensionImportsFrom(files, Sorted(IterDir(files, Sub(simple_bulma_path, <<"e","x","t","e","n","s","i","o","n","s">>))), 1)

\* lines 69-74: _unpack_variables(variables) for a dict of str values
RECURSIVE unpack_variables(_)
unpack_variables(variables) ==
    IF variables = <<>> THEN <<>>
    ELSE <<"$">> \o Head(variables)[1] \o <<":"," ">> \o Head(variables)[2] \o <<";","\n">>
         \o unpack_variables(Tail(variables))

\* path.exists() for a file or a directory
PathExists(files, path) ==
    PathStr(path) \in DOMAIN files \cup DirsOf(files)

\* lines 244-247
bulma_module_order ==
    << <<"t","h","e","m","e","s">>, <<"b","a","s","e">>, <<"e","l","e","m","e","n","t","s">>, <<"f","o","r","m">>, <<"c","o","m","p","o","n","e","n","t","s">>,
       <<"g","r","i","d">>, <<"l","a","y","o","u","t">>, <<"h","e","l","p","e","r","s">> >>

\* lines 249-252: the imports of the modules, from the k-th on, that exist
RECURSIVE ModuleImports(_, _)
ModuleImports(files, k) ==
    IF k > Len(bulma_module_order) THEN <<>>
    ELSE (IF PathExists(files, Sub(bulma_submodule_path, bulma_module_order[k]))
          THEN <<"@","i","m","p","o","r","t"," ","'","b","u","l","m","a","/","s","a","s","s","/">> \o bulma_module_order[k] \o <<"/","_","i","n","d","e","x","'",";","\n">>
          ELSE <<>>)
         \o ModuleImports(files, k + 1)

\* lines 237-257: bulma_string
bulma_string(files) ==
    <<"@","i","m","p","o","r","t"," ","'","b","u","l","m","a","/","s","a","s","s","/","u","t","i","l","i","t","i","e","s","/","_","i","n","d","e","x","'",";","\n">>
    \o ModuleImports(files, 1)
    \o (IF PathExists(files, Sub(Sub(bulma_submodule_path, <<"b","a","s","e">>), <<"s","k","e","l","e","t","o","n",".","s","a","s","s">>))
        THEN <<"@","i","m","p","o","r","t"," ","'","b","u","l","m","a","/","s","a","s","s","/","b","a","s","e","/","s","k","e","l","e","t","o","n","'",";","\n">>
        ELSE <<>>)

\* lines 266-287: the loop of the fallback over the theme names from the
\* k-th on, for the imports of Bulma and of the extensions; the open of line
\* 285 fails when there is no folder css, which nothing here creates
RECURSIVE FallbackLoop(_, _, _, _, _)
FallbackWrite(theme_names, k, files, theme_paths, imports, variables) ==
    FallbackLoop(theme_names, k + 1,
                 (PathStr(Sub(simple_bulma_path, ThemePath(theme_names[k])))
                     :> SassCompile(<<"@","c","h","a","r","s","e","t"," ","'","u","t","f","-","8","'",";","\n">> \o unpack_variables(variables) \o imports))
                 @@ files,
                 Append(theme_paths, ThemePath(theme_names[k])), imports)

FallbackLoop(theme_names, k, files, theme_paths, imports) ==
    IF k > Len(theme_names)
    THEN [exc |-> "none", val |-> theme_paths, disk |-> files, variables |-> finder.variables]
    ELSE IF theme_names[k] # <<>>
            /\ ~DictHas(settings.BULMA_SETTINGS, theme_names[k] \o <<"_","v","a","r","i","a","b","l","e","s">>)
    THEN [exc |-> "KeyError", disk |-> files, variables |-> finder.variables]
    ELSE IF ~PathExists(files, Sub(simple_bulma_path, <<"c","s","s">>))
    THEN [exc |-> "FileNotFoundError", disk |-> files, variables |-> finder.variables]
    ELSE IF theme_names[k] = <<>>
    THEN FallbackWrite(theme_names, k, files, theme_paths, imports, finder.variables)
    ELSE FallbackWrite(theme_names, k, files, theme_paths, imports,
                       DictGet(settings.BULMA_SETTINGS, theme_names[k] \o <<"_","v","a","r","i","a","b","l","e","s">>).value)

\* lines 223-289: _compile_sass_fallback(): every outcome it may have, over
\* the sass module that is installed and the orders of rglob
compile_sass_fallback ==
    { [exc |-> "UserWarning", disk |-> disk, variables |-> finder.variables] }
    \cup { FallbackLoop(<< <<>> >> \o get_themes, 1, disk, <<>>, bulma_string(disk) \o extensions_string) :
             extensions_string \in get_extension_imports(disk) }

\* json.load of a file whose text is an object with no member or with one
\* member whose value is a string without escapes; every other text drawn is
\* not JSON
json_load(text) ==
    LET inner == SubSeq(text, 3, Len(text) - 2)
        colon == { i \in 1..(Len(inner) - 3) : SubSeq(inner, i, i + 3) = <<"\"",":"," ","\"">> }
        at == CHOOSE i \in colon : TRUE
    IN  IF text = <<"{","}">> THEN [exc |-> "none", val |-> <<>>]
        ELSE IF /\ StartsWith(text, <<"{","\"">>)
                /\ EndsWith(text, <<"\"","}">>)
                /\ Len(text) >= 8
                /\ Cardinality(colon) = 1
                /\ Count(inner, "\"") = 2
                /\ Count(inner, "\\") = 0
        THEN [exc |-> "none",
              val |-> << << SubSeq(inner, 1, at - 1), PyStr(SubSeq(inner, at + 4, Len(inner))) >> >>]
        ELSE [exc |-> "JSONDecodeError"]

\* line 113
version_file == Sub(PathParent(bulma_submodule_path), <<"p","a","c","k","a","g","e",".","j","s","o","n">>)

\* line 120
is_bulma_1_plus(version) == StartsWith(version, <<"1",".">>)

\* lines 119-127: the method called for the package data read, and what it
\* does
BulmaCssFor(package_data) ==
    LET version == IF DictHas(package_data, <<"v","e","r","s","i","o","n">>)
                   THEN DictGet(package_data, <<"v","e","r","s","i","o","n">>).value ELSE <<"0",".","0",".","0">>
    IN  IF is_bulma_1_plus(version)
        THEN { [calls |-> << "_get_bulma_1_css" >>,
                done |-> get_bulma_1_css(get_themes,
                                         Truthy(BulmaSetting(<<"e","x","t","e","n","s","i","o","n","s">>, PyList(<<>>))))] }
        ELSE { [calls |-> << "_compile_sass_fallback" >>, done |-> done] :
                 done \in compile_sass_fallback }

\* lines 115-118: the package data, when the file is read
BulmaCssRead(loaded) ==
    IF loaded.exc # "none"
    THEN { [calls |-> <<>>,
            done |-> [exc |-> loaded.exc, disk |-> disk, variables |-> finder.variables]] }
    ELSE BulmaCssFor(loaded.val)

\* lines 97-127: _get_bulma_css(): every outcome it may have, with the
\* methods it has called
get_bulma_css ==
    IF Exists(disk, version_file)
    THEN BulmaCssRead(json_load(disk[PathStr(version_file)]))
    ELSE BulmaCssFor(<<>>)

\* mutant: the custom stylesheets come first
ListFiles_CustomFirst(css, custom, js) == custom \o css \o js

\* lines 356-358: files, after the two calls of extend
ListFiles(css, custom, js) == css \o custom \o js

\* line 46: FileSystemStorage(simple_bulma_path)
FileSystemStorage(location) == [location |-> location]

\* lines 34-52: SimpleBulmaFinder(), for the finders that get_finder gives for
\* the other entries of STATICFILES_FINDERS
SimpleBulmaFinder(other_finders) ==
    [variables |-> BulmaSetting(<<"v","a","r","i","a","b","l","e","s">>, PyDict(<<>>)).value,
     custom_scss |-> BulmaSetting(<<"c","u","s","t","o","m","_","s","c","s","s">>, PyList(<<>>)).value,
     other_finders |-> other_finders,
     storage |-> FileSystemStorage(simple_bulma_path)]

(***************************************************************************)
(* collectstatic asks the finder for its files, then a template is         *)
(* rendered                                                                *)
(***************************************************************************)
\* the BULMA_SETTINGS drawn
CollectSettings ==
    { [has_bulma_settings |-> FALSE] }
    \cup { [has_bulma_settings |-> TRUE, BULMA_SETTINGS |-> b] : b \in {
        << << <<"e","x","t","e","n","s","i","o","n","s">>, PyStr(<<"a","l","l">>) >> >>,
        << << <<"v","a","r","i","a","b","l","e","s">>, PyDict(<< << <<"p","r","i","m","a","r","y">>, <<"#","f","0","0">> >> >>) >>,
           << <<"d","a","r","k","_","v","a","r","i","a","b","l","e","s">>, PyDict(<< << <<"p","r","i","m","a","r","y">>, <<"#","0","0","0">> >> >>) >> >>,
        << << <<"e","x","t","e","n","s","i","o","n","s">>, PyList(<< <<"b","u","l","m","a","-","c","o","l","l","a","p","s","i","b","l","e">> >>) >>,
           << <<"c","u","s","t","o","m","_","s","c","s","s">>, PyList(<< <<"c","s","s","/","a",".","s","c","s","s">> >>) >>,
           << <<"l","i","g","h","t","_","v","a","r","i","a","b","l","e","s">>, PyDict(<< << <<"l","i","n","k">>, <<"#","0","0","f">> >> >>) >> >>,
        << << <<"c","u","s","t","o","m","_","s","c","s","s">>, PyList(<< <<"b",".","s","c","s","s">> >>) >>,
           << <<"d","a","r","k","_","v","a","r","i","a","b","l","e","s">>, PyDict(<<>>) >>,
           << <<"l","i","g","h","t","_","v","a","r","i","a","b","l","e","s">>, PyDict(<<>>) >> >>,
        << << <<"l","i","g","h","t","_","v","a","r","i","a","b","l","e","s","\n">>, PyDict(<<>>) >> >> } }

\* the other finders: one that has css/a.scss
CollectFinders == << [root |-> <<"/","f","1">>, has |-> { <<"c","s","s","/","a",".","s","c","s","s">> }, miss |-> None] >>

\* the texts of bulma/package.json drawn; none when there is no such file
PackageTexts ==
    { <<>>,
      <<"{","\"","v","e","r","s","i","o","n","\"",":"," ","\"","1",".","0",".","4","\"","}">>,
      <<"{","\"","v","e","r","s","i","o","n","\"",":"," ","\"","0",".","9",".","4","\"","}">>,
      <<"{","\"","v","e","r","s","i","o","n","\"",":"," ","\"","2",".","0",".","0","\"","}">>,
      <<"{","\"","v","e","r","s","i","o","n","\"",":"," ","\"","1","0",".","1",".","0","\"","}">>,
      <<"{","\"","n","a","m","e","\"",":"," ","\"","b","u","l","m","a","\"","}">>,
      <<"{","}">>,
      <<"x">> }

\* the bulma folder drawn: empty, or with the pre-compiled stylesheet and one
\* module of the SASS sources
BulmaFolders ==
    { <<>>,
      (PathStr(precompiled_css) :> <<"b","{","}">>)
      @@ (<<"/","p","k","g","/","b","u","l","m","a","/","s","a","s","s","/","b","a","s","e","/","_","i","n","d","e","x",".","s","c","s","s">> :> <<"s">>)
      @@ (<<"/","p","k","g","/","b","u","l","m","a","/","s","a","s","s","/","b","a","s","e","/","s","k","e","l","e","t","o","n",".","s","a","s","s">> :> <<"s">>) }

\* the extensions folder drawn: empty, or with bulma-collapsible and bulma-x
ExtensionFolders ==
    { <<>>,
      CollapsibleFolder @@ XFolder
      @@ (<<"/","p","k","g","/","e","x","t","e","n","s","i","o","n","s","/","b","u","l","m","a","-","x","/","d","i","s","t","/","x",".","c","s","s">> :> <<"x","{","}">>)
      @@ (<<"/","p","k","g","/","e","x","t","e","n","s","i","o","n","s","/","b","u","l","m","a","-","x","/","s","r","c","/","s","a","s","s","/","_","a","l","l",".","s","a","s","s">> :> <<"s">>) }

\* the folder css of the package drawn: not there, or there with a file
CssFolders == { <<>>, <<"/","p","k","g","/","c","s","s","/",".","g","i","t","k","e","e","p">> :> <<>> }

CollectDisks ==
    { (IF text = <<>> THEN <<>> ELSE PathStr(version_file) :> text) @@ b @@ e @@ c :
        text \in PackageTexts, b \in BulmaFolders, e \in ExtensionFolders, c \in CssFolders }

\* the result of a generator that has not ended: what it has yielded
Yielding(pairs) == [exc |-> "pending", val |-> pairs]

InitCollect ==
    /\ pc = "call"
    /\ fn \in { "list", "_get_bulma_css" }
    /\ arg = <<>>
    /\ ret = IF fn = "list" THEN Yielding(<<>>) ELSE Pending
    /\ settings \in CollectSettings
    /\ finder = SimpleBulmaFinder(CollectFinders)
    /\ disk \in CollectDisks
    /\ log = <<>>
    /\ tables = <<>>
    /\ locals = <<>>

\* _get_bulma_css() called on its own; locals keeps the methods it called
GetBulmaCss ==
    /\ pc = "call"
    /\ fn = "_get_bulma_css"
    /\ \E out \in get_bulma_css :
          /\ MethodEndsSelf(out.done)
          /\ locals' = [calls |-> out.calls]
    /\ pc' = "done"
    /\ UNCHANGED <<fn, arg, settings, log, tables>>

\* a step of list ends: the generator goes on to the next step, or the
\* exception of the step ends it with what it had yielded
ListStepEnds(done, next, kept) ==
    /\ disk' = done.disk
    /\ IF done.exc = "none"
       THEN /\ pc' = next
            /\ ret' = ret
            /\ locals' = kept
       ELSE /\ pc' = "done"
            /\ ret' = [exc |-> done.exc, val |-> ret.val]
            /\ locals' = locals

\* line 356, at the first next() of the generator
ListBulmaCss ==
    /\ pc = "call"
    /\ fn = "list"
    /\ \E out \in get_bulma_css :
          /\ ListStepEnds(out.done, "custom_css",
                          [css |-> IF out.done.exc = "none" THEN out.done.val ELSE <<>>])
          /\ finder' = [finder EXCEPT !.variables = out.done.variables]
    /\ UNCHANGED <<fn, arg, settings, log, tables>>

\* line 357
ListCustomCss ==
    /\ pc = "custom_css"
    /\ ListStepEnds(get_custom_css, "bulma_js",
                    [css |-> locals.css,
                     custom |-> IF get_custom_css.exc = "none" THEN get_custom_css.val ELSE <<>>])
    /\ UNCHANGED <<fn, arg, settings, finder, log, tables>>

\* line 358
ListBulmaJs ==
    /\ pc = "bulma_js"
    /\ \E js \in get_js_files(disk) :
          locals' = [css |-> locals.css, custom |-> locals.custom, js |-> js,
                     files |-> ListFiles(locals.css, locals.custom, js)]
    /\ pc' = "yield"
    /\ UNCHANGED <<fn, arg, ret, settings, finder, disk, log, tables>>

\* lines 360-361: the next pair is yielded
ListYield ==
    /\ pc = "yield"
    /\ Len(ret.val) < Len(locals.files)
    /\ ret' = Yielding(Append(ret.val, << locals.files[Len(ret.val) + 1], finder.storage >>))
    /\ UNCHANGED <<pc, fn, arg, surroundings>>

\* line 360: the loop is over and the generator ends
ListEnds ==
    /\ pc = "yield"
    /\ Len(ret.val) = Len(locals.files)
    /\ ret' = [exc |-> "none", val |-> ret.val]
    /\ pc' = "done"
    /\ UNCHANGED <<fn, arg, surroundings>>

\* after collectstatic, a template with the bulma tag is rendered
RenderTemplate ==
    /\ pc = "done"
    /\ fn = "list"
    /\ ret.exc = "none"
    /\ fn' = "bulma"
    /\ arg' \in [theme : TagThemes, include_js : BOOLEAN]
    /\ ret' = Pending
    /\ pc' = "call"
    /\ UNCHANGED surroundings

NextCollect ==
    \/ GetBulmaCss
    \/ ListBulmaCss
    \/ ListCustomCss
    \/ ListBulmaJs
    \/ ListYield
    \/ ListEnds
    \/ RenderTemplate
    \/ Bulma

SpecCollect == InitCollect /\ [][NextCollect]_vars

(***************************************************************************)
(* Properties of list and _get_bulma_css                                   *)
(***************************************************************************)
\* the pairs of the paths with the storage
PairsOf(paths, storage) == [i \in 1..Len(paths) |-> << paths[i], storage >>]

\* C21: SimpleBulmaFinder.list yields one (path, storage) pair for every path
\* produced by _get_bulma_css, then every path from _get_custom_css, then
\* every path from _get_bulma_js, in that order, each paired with the
\* finder's own storage; the number of pairs is the sum of the three lists and
\* nothing is yielded if any of the three steps raises.
C21_ListOrder ==
    fn = "list" =>
        /\ pc \in { "call", "custom_css", "bulma_js" } => ret = Yielding(<<>>)
        /\ (pc = "done" /\ ret.exc # "none") => ret.val = <<>>
        /\ pc = "yield" =>
              /\ Len(ret.val) <= Len(locals.css) + Len(locals.custom) + Len(locals.js)
              /\ ret.val = SubSeq(PairsOf(locals.css \o locals.custom \o locals.js, finder.storage),
                                  1, Len(ret.val))
        /\ (pc = "done" /\ ret.exc = "none") =>
              /\ Len(ret.val) = Len(locals.css) + Len(locals.custom) + Len(locals.js)
              /\ ret.val = PairsOf(locals.css \o locals.custom \o locals.js, finder.storage)

\* list has ended after five pairs: two stylesheets of Bulma, one custom
\* stylesheet and two scripts
C21_Witness ==
    /\ Returned("list")
    /\ ret.exc = "none"
    /\ locals.css = << <<"c","s","s","/","b","u","l","m","a",".","c","s","s">>, <<"c","s","s","/","l","i","g","h","t","_","b","u","l","m","a",".","c","s","s">> >>
    /\ locals.custom = << <<"c","s","s","/","a",".","c","s","s">> >>
    /\ Len(locals.js) = 2
    /\ ret.val = << << <<"c","s","s","/","b","u","l","m","a",".","c","s","s">>, FileSystemStorage(simple_bulma_path) >>,
                    << <<"c","s","s","/","l","i","g","h","t","_","b","u","l","m","a",".","c","s","s">>, FileSystemStorage(simple_bulma_path) >>,
                    << <<"c","s","s","/","a",".","c","s","s">>, FileSystemStorage(simple_bulma_path) >>,
                    << <<"e","x","t","e","n","s","i","o","n","s","/","b","u","l","m","a","-","c","o","l","l","a","p","s","i","b","l","e","/","d","i","s","t","/","j","s","/","c",".","m","i","n",".","j","s">>, FileSystemStorage(simple_bulma_path) >>,
                    << RunnerPath, FileSystemStorage(simple_bulma_path) >> >>

\* the version that the text of package.json gives, when it gives one
VersionIn(text) ==
    IF StartsWith(text, <<"{","\"","v","e","r","s","i","o","n","\"",":"," ","\"">>) /\ EndsWith(text, <<"\"","}">>)
    THEN { SubSeq(text, Len(<<"{","\"","v","e","r","s","i","o","n","\"",":"," ","\"">>) + 1, Len(text) - 2) }
    ELSE {}

\* the number before the first '.' of a version
MajorOf(version) ==
    CHOOSE n \in 0..99 : NatStr(n) = Head(Split(version, "."))

\* C22: _get_bulma_css uses the pre-compiled-CSS path (_get_bulma_1_css) for
\* every bundled Bulma whose package.json version is 1.0 or higher, and the
\* SASS compilation fallback only for versions below 1.0 or when package.json
\* is absent; exactly one of the two paths runs per call.
C22_VersionSwitch ==
    Returned("_get_bulma_css") =>
        /\ Len(locals.calls) = 1
        /\ ~Exists(disk, version_file) => locals.calls = << "_compile_sass_fallback" >>
        /\ Exists(disk, version_file) =>
              \A version \in VersionIn(disk[PathStr(version_file)]) :
                  locals.calls = IF MajorOf(version) >= 1 THEN << "_get_bulma_1_css" >>
                                 ELSE << "_compile_sass_fallback" >>

\* the stylesheets that collectstatic got from the finder for the themes
GeneratedFor(theme) ==
    { i \in 1..Len(locals.css) : locals.css[i] = <<"c","s","s","/">> \o theme \o <<"_","b","u","l","m","a",".","c","s","s">> }

====
